---- MODULE Spec2Model ----
(***************************************************************************)
(* Card lifecycle and validation engine of the Planning Game MCP server:   *)
(* createCard / updateCard of src/tools/cards.js with the helpers they     *)
(* call (list-service.js, commits-validation.js), over one project of the  *)
(* realtime database.                                                      *)
(*                                                                         *)
(* JavaScript values.  A field that is undefined (not a key of the object) *)
(* is the empty tuple; a present value v is the 1-tuple <<v>>.  Strings    *)
(* are strings, numbers are integers, arrays are sequences, objects are    *)
(* records.  A task priority is either a label or a rank: Label / Rank.    *)
(* Not modelled, because no rule reads them: description, year, the audit  *)
(* stamps createdAt/By and updatedAt/By, codeveloper auto-assignment from  *)
(* mcp.user.json.                                                          *)
(***************************************************************************)
EXTENDS Integers, Sequences, FiniteSets, TLC

Undefined == <<>>
Some(v) == <<v>>
IsDefined(o) == o # Undefined
ValueOf(o) == o[1]

\* String.prototype.trim on the strings of the model: "" and "  " are blank.
Trim(s) == IF s \in {"", "  "} THEN "" ELSE s

\* String.prototype.toLowerCase on the strings of the model.
toLowerCase(s) ==
  CASE s = "To Do" -> "to do"
    [] s = "TO DO" -> "to do"
    [] s = "In Progress" -> "in progress"
    [] s = "To Validate" -> "to validate"
    [] s = "Done&Validated" -> "done&validated"
    [] s = "Blocked" -> "blocked"
    [] s = "Reopened" -> "reopened"
    [] s = "Created" -> "created"
    [] s = "Assigned" -> "assigned"
    [] s = "Fixed" -> "fixed"
    [] s = "Verified" -> "verified"
    [] s = "Closed" -> "closed"
    [] s = "Bogus" -> "bogus"
    [] s = "High" -> "high"
    [] s = "Medium" -> "medium"
    [] s = "Low" -> "low"
    [] s = "APPLICATION BLOCKER" -> "application blocker"
    [] s = "Application Blocker" -> "application blocker"
    [] s = "USER EXPERIENCE ISSUE" -> "user experience issue"
    [] s = "User Experience Issue" -> "user experience issue"
    [] OTHER -> s

\* s.replace(/\s+/g, '') on the lower-case strings of the model.
removeWhitespace(s) ==
  CASE s = "to do" -> "todo"
    [] s = "in progress" -> "inprogress"
    [] s = "to validate" -> "tovalidate"
    [] s = "  " -> ""
    [] OTHER -> s

\* The prefix an entity id starts with ("" when it has neither prefix).
idPrefix(s) ==
  CASE s \in {"dev_1", "dev_2", "dev_016"} -> "dev_"
    [] s \in {"stk_1", "stk_2", "stk_3"} -> "stk_"
    [] OTHER -> ""
startsWith(s, prefix) == idPrefix(s) = prefix

Label(s) == [tag |-> "label", label |-> s, rank |-> 0]
Rank(n) == [tag |-> "rank", label |-> "", rank |-> n]

RECURSIVE SelectIndex(_, _, _)
\* Array.prototype.findIndex from position i: 0 when no element satisfies Test.
SelectIndex(seq, Test(_), i) ==
  IF i > Len(seq) THEN 0
  ELSE IF Test(seq[i]) THEN i
  ELSE SelectIndex(seq, Test, i + 1)

Range(seq) == {seq[i] : i \in 1..Len(seq)}

(***************************************************************************)
(* list-service.js: the controlled vocabularies.  A list is the sequence   *)
(* of its keys in key order, each with its rank.                           *)
(***************************************************************************)
FALLBACK_LISTS ==
  [bugPriority |-> << [text |-> "APPLICATION BLOCKER", order |-> 1],
                      [text |-> "DEPARTMENT BLOCKER", order |-> 2],
                      [text |-> "INDIVIDUAL BLOCKER", order |-> 3],
                      [text |-> "USER EXPERIENCE ISSUE", order |-> 4],
                      [text |-> "WORKFLOW IMPROVEMENT", order |-> 5],
                      [text |-> "WORKAROUND AVAILABLE ISSUE", order |-> 6] >>,
   bugStatus |-> << [text |-> "Created", order |-> 1],
                    [text |-> "Assigned", order |-> 2],
                    [text |-> "Fixed", order |-> 3],
                    [text |-> "Verified", order |-> 4],
                    [text |-> "Closed", order |-> 5] >>,
   taskStatus |-> << [text |-> "To Do", order |-> 1],
                     [text |-> "In Progress", order |-> 2],
                     [text |-> "To Validate", order |-> 3],
                     [text |-> "Done&Validated", order |-> 4],
                     [text |-> "Blocked", order |-> 5],
                     [text |-> "Reopened", order |-> 6] >>]

\* The realtime database beside the cards (lists, sprints, stakeholders,
\* developers), the clock Date.now() in milliseconds, and the cache of the
\* list service: per list type nothing, or { data, loadedAt }.
VARIABLES rtdb, now, cache

ListTypes == {"bugPriority", "bugStatus", "taskStatus"}

\* Cache TTL in milliseconds (5 minutes)
CACHE_TTL_MS == 5 * 60 * 1000

\* snapshot.val() at LIST_PATHS[listType]: the empty sequence when there is
\* nothing (null) or an object without keys.
RtdbLists == rtdb.lists

\* loadListFromFirebase handing on what it read, empty or not.
loadListFromFirebase_NoFallback(listType) == RtdbLists[listType]

\* db.ref(path).once('value') resolves; when it rejects the catch branch runs.
ReadSucceeds == rtdb.online

\* loadListFromFirebase: the list read, or the fallback when the data is
\* null or empty and when the read fails.
loadListFromFirebase(listType) ==
  IF ReadSucceeds /\ Len(RtdbLists[listType]) > 0 THEN RtdbLists[listType]
  ELSE FALLBACK_LISTS[listType]

\* cached with an entry still good when it is exactly CACHE_TTL_MS old.
cached_Inclusive(listType) ==
  /\ IsDefined(cache[listType])
  /\ now - ValueOf(cache[listType]).loadedAt <= CACHE_TTL_MS

\* cached && (Date.now() - cached.loadedAt) < CACHE_TTL_MS
cached(listType) ==
  /\ IsDefined(cache[listType])
  /\ now - ValueOf(cache[listType]).loadedAt < CACHE_TTL_MS

\* getList: the data it returns ...
getList(listType) ==
  IF cached(listType) THEN ValueOf(cache[listType]).data
  ELSE loadListFromFirebase(listType)

\* cacheAfterGetList keeping a list only when it came out of the database.
cacheAfterGetList_RealLoadsOnly(listTypes) ==
  [t \in ListTypes |->
     IF t \in listTypes /\ ~cached(t) /\ loadListFromFirebase(t) = RtdbLists[t]
     THEN Some([data |-> loadListFromFirebase(t), loadedAt |-> now])
     ELSE cache[t]]

\* ... and the cache it leaves, after reading each of the list types.
cacheAfterGetList(listTypes) ==
  [t \in ListTypes |->
     IF t \in listTypes /\ ~cached(t)
     THEN Some([data |-> loadListFromFirebase(t), loadedAt |-> now])
     ELSE cache[t]]

listKeys(listType) == {getList(listType)[i].text : i \in 1..Len(getList(listType))}

RECURSIVE insertByOrder(_, _, _)
\* Insert e after every element whose order is <= its own.
insertByOrder(sorted, e, i) ==
  IF i > Len(sorted) THEN Append(sorted, e)
  ELSE IF e.order < sorted[i].order
       THEN SubSeq(sorted, 1, i - 1) \o <<e>> \o SubSeq(sorted, i, Len(sorted))
       ELSE insertByOrder(sorted, e, i + 1)

RECURSIVE sortByOrder(_, _, _)
\* Object.entries(data).sort((a, b) => a[1] - b[1])
sortByOrder(data, i, sorted) ==
  IF i > Len(data) THEN sorted
  ELSE sortByOrder(data, i + 1, insertByOrder(sorted, data[i], 1))

getListTexts(listType) ==
  LET sorted == sortByOrder(getList(listType), 1, <<>>)
  IN  [i \in 1..Len(sorted) |-> sorted[i].text]

\* resolveValue answering a match found ignoring case as it was typed, lower-cased.
resolveValue_Lowered(listType, value) ==
  LET data == getList(listType)
      i == SelectIndex(data, LAMBDA e : toLowerCase(e.text) = toLowerCase(value), 1)
  IN  IF value \in listKeys(listType) THEN [ok |-> TRUE, value |-> value]
      ELSE IF i > 0 THEN [ok |-> TRUE, value |-> toLowerCase(value)]
      ELSE [ok |-> FALSE, value |-> value]

\* resolveValue: [ok, value]; exact key first, then the first key equal
\* ignoring case, else the call throws.
resolveValue(listType, value) ==
  LET data == getList(listType)
      i == SelectIndex(data, LAMBDA e : toLowerCase(e.text) = toLowerCase(value), 1)
  IN  IF value \in listKeys(listType) THEN [ok |-> TRUE, value |-> value]
      ELSE IF i > 0 THEN [ok |-> TRUE, value |-> data[i].text]
      ELSE [ok |-> FALSE, value |-> value]

\* invalidateCache emptying the cache whatever the list type.
invalidateCache_All(listType) == [t \in ListTypes |-> Undefined]

\* delete cache[listType], or every entry when no list type is given.
invalidateCache(listType) ==
  [t \in ListTypes |->
     IF ~IsDefined(listType) \/ ValueOf(listType) = "" \/ ValueOf(listType) = t
     THEN Undefined ELSE cache[t]]

isValidValue(listType, value) == value \in listKeys(listType)

(***************************************************************************)
(* Priority calculator.  A ratio (biz / dev) * 100 is kept as the pair     *)
(* (biz, dev); two ratios compare by cross-multiplication, which is what   *)
(* the floating-point values do on these small integers.                   *)
(***************************************************************************)
scaleValues(scoringSystem) ==
  IF scoringSystem = "fibonacci" THEN <<1, 2, 3, 5, 8, 13>> ELSE <<1, 2, 3, 4, 5>>

\* ratio(a) > ratio(b) turned round: the sort ascending.
ratioGreater_Reversed(a, b) == a.biz * b.dev < b.biz * a.dev

\* ratio(a) > ratio(b), for entries of the table (dev > 0)
ratioGreater(a, b) == a.biz * b.dev > b.biz * a.dev

\* ratio(a) >= ratio(b) taken as ratio(a) > ratio(b).
ratioAtLeast_Strict(a, b) ==
  IF a.dev > 0 THEN a.biz * b.dev > b.biz * a.dev ELSE a.biz * b.dev < b.biz * a.dev

\* ratio(a) >= ratio(b), for an entry b of the table and any a with dev # 0
ratioAtLeast(a, b) ==
  IF a.dev > 0 THEN a.biz * b.dev >= b.biz * a.dev ELSE a.biz * b.dev <= b.biz * a.dev

\* The nested loops: biz outer, dev inner.
combinations(scoringSystem) ==
  LET v == scaleValues(scoringSystem)
      n == Len(v)
  IN  [k \in 1..(n * n) |-> [biz |-> v[((k - 1) \div n) + 1], dev |-> v[((k - 1) % n) + 1]]]

RECURSIVE insertByRatio(_, _, _)
\* Insert c into the sorted prefix after every element whose ratio is >= its own.
insertByRatio(sorted, c, i) ==
  IF i > Len(sorted) THEN Append(sorted, c)
  ELSE IF ratioGreater(c, sorted[i])
       THEN SubSeq(sorted, 1, i - 1) \o <<c>> \o SubSeq(sorted, i, Len(sorted))
       ELSE insertByRatio(sorted, c, i + 1)

RECURSIVE sortByRatioDesc(_, _, _)
\* Array.prototype.sort((a, b) => b.ratio - a.ratio): stable, ratio descending.
sortByRatioDesc(combos, i, sorted) ==
  IF i > Len(combos) THEN sorted
  ELSE sortByRatioDesc(combos, i + 1, insertByRatio(sorted, combos[i], 1))

\* generatePriorityMap over the combinations pushed in the opposite order:
\* pairings of equal ratio change places in the table.
generatePriorityMap_LastPushedFirst(scoringSystem) ==
  LET combos == combinations(scoringSystem)
      sorted == sortByRatioDesc([k \in 1..Len(combos) |-> combos[Len(combos) + 1 - k]], 1, <<>>)
  IN  [i \in 1..Len(sorted) |-> [biz |-> sorted[i].biz, dev |-> sorted[i].dev, priority |-> i]]

generatePriorityMap(scoringSystem) ==
  LET sorted == sortByRatioDesc(combinations(scoringSystem), 1, <<>>)
  IN  [i \in 1..Len(sorted) |-> [biz |-> sorted[i].biz, dev |-> sorted[i].dev, priority |-> i]]

\* The maps are built once, when the module is loaded: the state holds them.
VARIABLE PRIORITY_MAPS

PRIORITY_MAP_1_5 == PRIORITY_MAPS["1-5"]
PRIORITY_MAP_FIBONACCI == PRIORITY_MAPS["fibonacci"]

\* calculatePriority giving null when the ratio is below every entry.
calculatePriority_NoDefault(businessPoints, devPoints, scoringSystem) ==
  IF ~IsDefined(businessPoints) \/ ~IsDefined(devPoints) THEN Undefined
  ELSE IF ValueOf(businessPoints) = 0 \/ ValueOf(devPoints) = 0 THEN Undefined
  ELSE LET r == [biz |-> ValueOf(businessPoints), dev |-> ValueOf(devPoints)]
           map == IF scoringSystem = "fibonacci" THEN PRIORITY_MAP_FIBONACCI ELSE PRIORITY_MAP_1_5
           i == SelectIndex(map, LAMBDA e : ratioAtLeast(r, e), 1)
       IN  IF i > 0 THEN Some(map[i].priority) ELSE Undefined

\* calculatePriority: Undefined stands for null (and for a missing argument).
calculatePriority(businessPoints, devPoints, scoringSystem) ==
  IF ~IsDefined(businessPoints) \/ ~IsDefined(devPoints) THEN Undefined
  ELSE IF ValueOf(businessPoints) = 0 \/ ValueOf(devPoints) = 0 THEN Undefined
  ELSE LET r == [biz |-> ValueOf(businessPoints), dev |-> ValueOf(devPoints)]
           map == IF scoringSystem = "fibonacci" THEN PRIORITY_MAP_FIBONACCI ELSE PRIORITY_MAP_1_5
           i == SelectIndex(map, LAMBDA e : ratioAtLeast(r, e), 1)
       IN  IF i > 0 THEN Some(map[i].priority) ELSE Some(Len(map))

(***************************************************************************)
(* Cards.  A card, an update and the arguments of createCard are functions *)
(* over Fields; a field that is not supplied is Undefined.                 *)
(***************************************************************************)
Fields ==
  {"cardId", "firebaseId", "cardType", "group", "projectId",
   "status", "priority", "title", "descriptionStructured",
   "acceptanceCriteria", "acceptanceCriteriaStructured", "epic", "sprint",
   "developer", "validator", "devPoints", "businessPoints",
   "startDate", "commits", "implementationPlan",
   "blockedByBusiness", "blockedByDevelopment", "bbbWhy", "bbbWho", "bbdWhy", "bbdWho",
   "rootCause", "resolution", "relatedTasks"}

StringFields ==
  {"firebaseId", "cardType", "group", "projectId", "status", "title",
   "acceptanceCriteria", "epic", "sprint", "developer", "validator", "startDate",
   "bbbWhy", "bbbWho", "bbdWhy", "bbdWho", "rootCause", "resolution"}

NumberFields == {"devPoints", "businessPoints"}
BooleanFields == {"blockedByBusiness", "blockedByDevelopment"}

NoFields == [f \in Fields |-> Undefined]

\* { ...currentCard, ...updates }, and what ref.update(updates) leaves stored.
Merge(current, updates) ==
  [f \in Fields |-> IF IsDefined(updates[f]) THEN updates[f] ELSE current[f]]

\* JavaScript truthiness of data[field].
truthy(data, field) ==
  /\ IsDefined(data[field])
  /\ IF field \in StringFields THEN ValueOf(data[field]) # ""
     ELSE IF field \in NumberFields THEN ValueOf(data[field]) # 0
     ELSE IF field \in BooleanFields THEN ValueOf(data[field]) = TRUE
     ELSE TRUE

\* !value || value.trim() === ''
blankString(data, field) ==
  ~truthy(data, field) \/ Trim(ValueOf(data[field])) = ""

Ok == [ok |-> TRUE, code |-> "OK", fields |-> <<>>, use |-> "", listed |-> <<>>]
Err(code, fields) ==
  [ok |-> FALSE, code |-> code, fields |-> fields, use |-> "", listed |-> <<>>]

VALID_TASK_PRIORITIES == {"High", "Medium", "Low"}
TYPE_DEFAULTS ==
  [bug |-> [status |-> "Created", priority |-> "User Experience Issue"],
   task |-> [status |-> "To Do", priority |-> "Medium"]]
VALID_ID_PREFIXES == [developer |-> "dev_", validator |-> "stk_"]
EntityFields == <<"developer", "validator">>
REQUIRED_FIELDS_TO_CLOSE_BUG == <<"commits", "rootCause", "resolution">>
\* REQUIRED_FIELDS_TO_LEAVE_TODO with the sprint forgotten.
REQUIRED_FIELDS_TO_LEAVE_TODO_NoSprint ==
  <<"title", "developer", "validator", "epic", "devPoints", "businessPoints",
    "acceptanceCriteria">>
REQUIRED_FIELDS_TO_LEAVE_TODO ==
  <<"title", "developer", "validator", "epic", "sprint", "devPoints", "businessPoints",
    "acceptanceCriteria">>
REQUIRED_FIELDS_FOR_TO_VALIDATE == <<"startDate", "commits">>
\* VALIDATOR_ONLY_STATUSES with the only entry lost.
VALIDATOR_ONLY_STATUSES_Empty == {}
VALIDATOR_ONLY_STATUSES == {"Done&Validated"}
\* protectedFields without the card type.
protectedFields_NoCardType == <<"cardId", "firebaseId", "group", "projectId">>
protectedFields == <<"cardId", "firebaseId", "cardType", "group", "projectId">>

friendlyNames ==
  [title |-> "Title", developer |-> "Developer", validator |-> "Validator", epic |-> "Epic",
   sprint |-> "Sprint", devPoints |-> "Dev Points", businessPoints |-> "Business Points",
   acceptanceCriteria |-> "Acceptance Criteria"]

TASK_TRANSITION_RULES ==
  [s \in {"To Do", "In Progress", "To Validate", "Blocked", "Reopened", "Done&Validated"} |->
     CASE s = "To Do" -> {"In Progress", "Blocked"}
       [] s = "In Progress" -> {"To Validate", "Blocked", "To Do"}
       [] s = "To Validate" -> {"Reopened"}
       [] s = "Blocked" -> {"In Progress", "To Do"}
       [] s = "Reopened" -> {"In Progress", "To Validate"}
       [] s = "Done&Validated" -> {}]

\* validateEntityIds: the first field, in the order of VALID_ID_PREFIXES, whose
\* value is non-empty and lacks the prefix.
validateEntityIds(data) ==
  LET bad == SelectSeq(EntityFields,
               LAMBDA f : truthy(data, f) /\ ~startsWith(ValueOf(data[f]), VALID_ID_PREFIXES[f]))
  IN  IF Len(bad) > 0 THEN Err("INVALID_ENTITY_ID", <<bad[1]>>) ELSE Ok

\* A scenario of acceptanceCriteriaStructured has content.
scenarioHasContent(sc) ==
  \/ Trim(sc.given) # ""
  \/ Trim(sc.when) # ""
  \/ Trim(sc.then) # ""
  \/ Trim(sc.raw) # ""

hasValidValue(data, field) ==
  IF field = "acceptanceCriteria"
  THEN \/ truthy(data, "acceptanceCriteria") /\ Trim(ValueOf(data.acceptanceCriteria)) # ""
       \/ /\ IsDefined(data.acceptanceCriteriaStructured)
          /\ \E i \in 1..Len(ValueOf(data.acceptanceCriteriaStructured)) :
               scenarioHasContent(ValueOf(data.acceptanceCriteriaStructured)[i])
  ELSE IF field \in NumberFields
  THEN IsDefined(data[field]) /\ ValueOf(data[field]) > 0
  ELSE IF ~IsDefined(data[field]) THEN FALSE
  ELSE IF field \in StringFields THEN Trim(ValueOf(data[field])) # ""
  ELSE TRUE

\* Array.isArray(commits) && commits.length > 0
hasCommits(data) == IsDefined(data.commits) /\ Len(ValueOf(data.commits)) > 0

\* The closing gate without the check of the resolution.
validateBugStatusTransition_NoResolution(currentBug, updates) ==
  IF ~truthy(updates, "status") \/ currentBug.status = updates.status THEN Ok
  ELSE IF ValueOf(updates.status) = "Closed"
  THEN LET finalBug == Merge(currentBug, updates)
           missingFields ==
             (IF ~hasCommits(finalBug) THEN <<"commits">> ELSE <<>>)
             \o (IF blankString(finalBug, "rootCause") THEN <<"rootCause">> ELSE <<>>)
       IN  IF Len(missingFields) > 0 THEN Err("CANNOT_CLOSE_BUG", missingFields) ELSE Ok
  ELSE Ok

\* validateBugStatusTransition: the closing gate.
validateBugStatusTransition(currentBug, updates) ==
  IF ~truthy(updates, "status") THEN Ok
  ELSE IF currentBug.status = updates.status THEN Ok
  ELSE IF ValueOf(updates.status) = "Closed"
  THEN LET finalBug == Merge(currentBug, updates)
           missingFields ==
             (IF ~hasCommits(finalBug) THEN <<"commits">> ELSE <<>>)
             \o (IF blankString(finalBug, "rootCause") THEN <<"rootCause">> ELSE <<>>)
             \o (IF blankString(finalBug, "resolution") THEN <<"resolution">> ELSE <<>>)
       IN  IF Len(missingFields) > 0 THEN Err("CANNOT_CLOSE_BUG", missingFields) ELSE Ok
  ELSE Ok

normalizedStatus(card) ==
  removeWhitespace(toLowerCase(IF truthy(card, "status") THEN ValueOf(card.status) ELSE ""))

missingToLeaveToDo(finalCard) ==
  SelectSeq(REQUIRED_FIELDS_TO_LEAVE_TODO, LAMBDA f : ~hasValidValue(finalCard, f))

friendly(fields) == [i \in 1..Len(fields) |-> friendlyNames[fields[i]]]

\* missingBlockedFields asking for the reasons only, not for the owners.
missingBlockedFields_ReasonsOnly(finalCard) ==
  (IF truthy(finalCard, "blockedByBusiness") /\ ~hasValidValue(finalCard, "bbbWhy")
   THEN <<"bbbWhy">> ELSE <<>>)
  \o (IF truthy(finalCard, "blockedByDevelopment") /\ ~hasValidValue(finalCard, "bbdWhy")
      THEN <<"bbdWhy">> ELSE <<>>)

missingBlockedFields(finalCard) ==
  (IF truthy(finalCard, "blockedByBusiness")
   THEN (IF ~hasValidValue(finalCard, "bbbWhy") THEN <<"bbbWhy">> ELSE <<>>)
        \o (IF ~hasValidValue(finalCard, "bbbWho") THEN <<"bbbWho">> ELSE <<>>)
   ELSE <<>>)
  \o (IF truthy(finalCard, "blockedByDevelopment")
      THEN (IF ~hasValidValue(finalCard, "bbdWhy") THEN <<"bbdWhy">> ELSE <<>>)
           \o (IF ~hasValidValue(finalCard, "bbdWho") THEN <<"bbdWho">> ELSE <<>>)
      ELSE <<>>)

\* missingForValidate without the check of the commits.
missingForValidate_NoCommits(finalCard) ==
  (IF ~hasValidValue(finalCard, "startDate") THEN <<"startDate">> ELSE <<>>)
  \o friendly(missingToLeaveToDo(finalCard))

missingForValidate(finalCard) ==
  (IF ~hasValidValue(finalCard, "startDate") THEN <<"startDate">> ELSE <<>>)
  \o (IF ~hasCommits(finalCard) THEN <<"commits">> ELSE <<>>)
  \o friendly(missingToLeaveToDo(finalCard))

\* The checks validateStatusTransition makes on finalCard = { ...currentCard, ...updates }.
validateFinalCard(currentCard, newStatus, finalCard) ==
  IF /\ normalizedStatus(currentCard) = "todo"
     /\ newStatus # "To Do"
     /\ Len(missingToLeaveToDo(finalCard)) > 0
  THEN Err("MISSING_TO_LEAVE_TODO", friendly(missingToLeaveToDo(finalCard)))
  ELSE IF /\ newStatus = "Blocked"
          /\ ~truthy(finalCard, "blockedByBusiness")
          /\ ~truthy(finalCard, "blockedByDevelopment")
  THEN Err("BLOCKED_WITHOUT_BLOCKER", <<>>)
  ELSE IF newStatus = "Blocked" /\ Len(missingBlockedFields(finalCard)) > 0
  THEN Err("BLOCKED_MISSING_FIELDS", missingBlockedFields(finalCard))
  ELSE IF newStatus = "To Validate" /\ Len(missingForValidate(finalCard)) > 0
  THEN Err("MISSING_FOR_TO_VALIDATE", missingForValidate(finalCard))
  ELSE Ok

\* validateStatusTransition(currentCard, updates, type): Ok, or the error thrown.
validateStatusTransition(currentCard, updates, type) ==
  IF type # "task" THEN Ok
  ELSE IF ~truthy(updates, "status") THEN Ok
  ELSE IF currentCard.status = updates.status THEN Ok
  ELSE IF ValueOf(updates.status) \in VALIDATOR_ONLY_STATUSES
  THEN [ok |-> FALSE, code |-> "VALIDATOR_ONLY_STATUS", fields |-> <<>>, use |-> "To Validate",
        listed |-> <<>>]
  ELSE validateFinalCard(currentCard, ValueOf(updates.status), Merge(currentCard, updates))

\* const allPossibleStatuses of calculateAvailableTransitions, in its order.
allPossibleStatuses ==
  <<"To Do", "In Progress", "To Validate", "Blocked", "Reopened", "Done&Validated">>

\* card.status || 'To Do'
currentStatusOf(card) == IF truthy(card, "status") THEN ValueOf(card.status) ELSE "To Do"

\* The fields calculateAvailableTransitions checks with hasValidValue for a target.
requiredFieldsFor(currentStatus, targetStatus) ==
  IF targetStatus = "To Validate"
  THEN REQUIRED_FIELDS_TO_LEAVE_TODO \o REQUIRED_FIELDS_FOR_TO_VALIDATE
  ELSE IF targetStatus \in {"In Progress", "Blocked"} /\ currentStatus = "To Do"
  THEN REQUIRED_FIELDS_TO_LEAVE_TODO
  ELSE <<>>

\* What it pushes for the target "Blocked": the flags and their reasons are
\* tested for truthiness, not with hasValidValue.
missingBlockers(card) ==
  (IF ~truthy(card, "blockedByBusiness") /\ ~truthy(card, "blockedByDevelopment")
   THEN <<"blockedByBusiness OR blockedByDevelopment">> ELSE <<>>)
  \o (IF truthy(card, "blockedByBusiness")
      THEN (IF ~truthy(card, "bbbWhy") THEN <<"bbbWhy">> ELSE <<>>)
           \o (IF ~truthy(card, "bbbWho") THEN <<"bbbWho">> ELSE <<>>)
      ELSE <<>>)
  \o (IF truthy(card, "blockedByDevelopment")
      THEN (IF ~truthy(card, "bbdWhy") THEN <<"bbdWhy">> ELSE <<>>)
           \o (IF ~truthy(card, "bbdWho") THEN <<"bbdWho">> ELSE <<>>)
      ELSE <<>>)

\* One entry of transitions: { allowed, missing, reason }.
availableTransition(card, currentStatus, targetStatus) ==
  IF targetStatus \in VALIDATOR_ONLY_STATUSES
  THEN [allowed |-> FALSE, missing |-> <<>>, reason |-> "VALIDATOR_ONLY"]
  ELSE IF targetStatus \notin TASK_TRANSITION_RULES[currentStatus]
  THEN [allowed |-> FALSE, missing |-> <<>>, reason |-> "CANNOT_TRANSITION"]
  ELSE LET missing ==
             (IF targetStatus = "Blocked" THEN missingBlockers(card) ELSE <<>>)
             \o SelectSeq(requiredFieldsFor(currentStatus, targetStatus),
                          LAMBDA f : ~hasValidValue(card, f))
       IN  [allowed |-> Len(missing) = 0, missing |-> missing, reason |-> ""]

\* calculateAvailableTransitions(card): no entry for the current status, and
\* none at all for a status TASK_TRANSITION_RULES does not know.
calculateAvailableTransitions(card) ==
  LET currentStatus == currentStatusOf(card)
  IN  IF currentStatus \notin DOMAIN TASK_TRANSITION_RULES
      THEN [currentStatus |-> currentStatus, note |-> "Unknown status", transitions |-> <<>>]
      ELSE [currentStatus |-> currentStatus, note |-> "",
            transitions |->
              [targetStatus \in Range(allPossibleStatuses) \ {currentStatus} |->
                 availableTransition(card, currentStatus, targetStatus)]]

\* updateRelatedTasks pushing the relation without looking for it first.
updateRelatedTasks_AlwaysPush(currentRelations, targetCardId, targetProjectId, targetTitle, relationType, action) ==
  LET relations == IF IsDefined(currentRelations) THEN ValueOf(currentRelations) ELSE <<>>
  IN  IF action = "remove"
      THEN SelectSeq(relations, LAMBDA r : ~(r.id = targetCardId /\ r.type = relationType))
      ELSE Append(relations, [id |-> targetCardId, projectId |-> targetProjectId,
                              title |-> targetTitle, type |-> relationType])

\* updateRelatedTasks: the relatedTasks array with the relation removed, or
\* added; a relation that is there already only gets the title.
updateRelatedTasks(currentRelations, targetCardId, targetProjectId, targetTitle, relationType, action) ==
  LET relations == IF IsDefined(currentRelations) THEN ValueOf(currentRelations) ELSE <<>>
      existingIndex ==
        SelectIndex(relations, LAMBDA r : r.id = targetCardId /\ r.type = relationType, 1)
  IN  IF action = "remove"
      THEN SelectSeq(relations, LAMBDA r : ~(r.id = targetCardId /\ r.type = relationType))
      ELSE IF existingIndex > 0
      THEN [relations EXCEPT ![existingIndex].title = targetTitle]
      ELSE Append(relations, [id |-> targetCardId, projectId |-> targetProjectId,
                              title |-> targetTitle, type |-> relationType])

\* The relation type relateCards writes on the target card.
targetRelationType(relationType) == IF relationType = "blocks" THEN "blockedBy" ELSE relationType

(***************************************************************************)
(* The project the engine works on: what the realtime database holds       *)
(* beside the cards (the fixture of tests/cards.test.js).                  *)
(***************************************************************************)
ProjectAbbreviation == "PLN"
SECTION_ABBR == [task |-> "TSK", bug |-> "BUG"]
CARD_TYPE_MAP == [task |-> "task-card", bug |-> "bug-card"]
GROUP_MAP == [task |-> "tasks", bug |-> "bugs"]
ProjectId == "TestProject"
ProjectEpics == <<"PLN-EPC-0001">>

\* Dates are YYYY-MM-DD strings; they compare as strings, that is in this order.
Dates == <<"2024-05-01", "2024-06-01", "2024-07-01">>
dateIndex(d) == SelectIndex(Dates, LAMBDA x : x = d, 1)
dateLE(a, b) == dateIndex(a) <= dateIndex(b)
Today == "2024-06-01"

\* /cards/<project>/SPRINTS_<project> in key order.
ProjectSprints == rtdb.sprints

\* /data/stakeholders in key order, /projects/<id>/stakeholders, /data/developers.
\* "Manu Fosela" stands for the name the code looks for (written with an accent).
StakeholdersData == rtdb.stakeholders
ProjectStakeholderIds == rtdb.projectStakeholders
DevelopersData == rtdb.developers

\* The database the tests seed.
MockSprints ==
  << [cardId |-> "PLN-SPR-0001", status |-> "Active",
      startDate |-> "2024-05-01", endDate |-> "2024-07-01"] >>
MockStakeholders ==
  << [id |-> "stk_1", name |-> "Ana", email |-> "ana@x.com", active |-> TRUE],
     [id |-> "stk_2", name |-> "Manu Fosela", email |-> "manu@x.com", active |-> TRUE] >>
MockDevelopers ==
  [d \in {"dev_1", "dev_2"} |-> [email |-> IF d = "dev_1" THEN "ana@x.com" ELSE "bob@x.com"]]
MockRtdb ==
  [lists |-> FALLBACK_LISTS, sprints |-> MockSprints, stakeholders |-> MockStakeholders,
   projectStakeholders |-> {"stk_1", "stk_2"}, developers |-> MockDevelopers,
   online |-> TRUE]

validateSprintExists(sprint) ==
  IF ~IsDefined(sprint) \/ ValueOf(sprint) = "" THEN Ok
  ELSE IF Len(ProjectSprints) = 0 THEN Err("NO_SPRINTS_IN_PROJECT", <<"sprint">>)
  ELSE IF \E i \in 1..Len(ProjectSprints) : ProjectSprints[i].cardId = ValueOf(sprint) THEN Ok
  ELSE Err("SPRINT_NOT_FOUND", <<"sprint">>)

\* getActiveSprint looking at the dates before the status.
getActiveSprint_ByDateFirst ==
  LET byStatus == SelectIndex(ProjectSprints,
                    LAMBDA sp : sp.status = "Active" \/ sp.status = "In Progress", 1)
      byDate == SelectIndex(ProjectSprints,
                    LAMBDA sp : /\ sp.startDate # "" /\ sp.endDate # ""
                                /\ dateLE(sp.startDate, Today) /\ dateLE(Today, sp.endDate), 1)
  IN  IF byDate > 0 THEN Some(ProjectSprints[byDate])
      ELSE IF byStatus > 0 THEN Some(ProjectSprints[byStatus])
      ELSE Undefined

\* getActiveSprint: Undefined stands for null; a date that is missing is "".
getActiveSprint ==
  LET byStatus == SelectIndex(ProjectSprints,
                    LAMBDA sp : sp.status = "Active" \/ sp.status = "In Progress", 1)
      byDate == SelectIndex(ProjectSprints,
                    LAMBDA sp : /\ sp.startDate # "" /\ sp.endDate # ""
                                /\ dateLE(sp.startDate, Today) /\ dateLE(Today, sp.endDate), 1)
  IN  IF byStatus > 0 THEN Some(ProjectSprints[byStatus])
      ELSE IF byDate > 0 THEN Some(ProjectSprints[byDate])
      ELSE Undefined

\* resolveValidator looking for the default stakeholder before the developer's email.
resolveValidator_DefaultFirst(validator, developer) ==
  LET projectStakeholders ==
        SelectSeq(StakeholdersData,
          LAMBDA st : /\ startsWith(st.id, "stk_") /\ st.active
                      /\ st.id \in ProjectStakeholderIds)
      devEmail ==
        IF IsDefined(developer) /\ ValueOf(developer) \in DOMAIN DevelopersData
        THEN DevelopersData[ValueOf(developer)].email ELSE ""
      matching == SelectIndex(projectStakeholders, LAMBDA st : st.email = devEmail, 1)
      manu == SelectIndex(projectStakeholders, LAMBDA st : st.name = "Manu Fosela", 1)
  IN  IF IsDefined(validator) /\ ValueOf(validator) # "" THEN [err |-> Ok, value |-> validator]
      ELSE IF manu > 0 THEN [err |-> Ok, value |-> Some(projectStakeholders[manu].id)]
      ELSE IF devEmail # "" /\ matching > 0
      THEN [err |-> Ok, value |-> Some(projectStakeholders[matching].id)]
      ELSE IF Len(projectStakeholders) > 0
      THEN [err |-> Err("NO_VALIDATOR_ASSIGNABLE", <<"validator">>), value |-> Undefined]
      ELSE [err |-> Err("NO_STAKEHOLDERS_IN_PROJECT", <<"validator">>), value |-> Undefined]

\* resolveValidator: [err, value].  A stakeholder's active is false only
\* when the database says false; the error of rule 3 lists the ids of
\* projectStakeholders.
resolveValidator(validator, developer) ==
  LET projectStakeholders ==
        SelectSeq(StakeholdersData,
          LAMBDA st : /\ startsWith(st.id, "stk_") /\ st.active
                      /\ st.id \in ProjectStakeholderIds)
      devEmail ==
        IF IsDefined(developer) /\ ValueOf(developer) \in DOMAIN DevelopersData
        THEN DevelopersData[ValueOf(developer)].email ELSE ""
      matching == SelectIndex(projectStakeholders, LAMBDA st : st.email = devEmail, 1)
      manu == SelectIndex(projectStakeholders, LAMBDA st : st.name = "Manu Fosela", 1)
  IN  IF IsDefined(validator) /\ ValueOf(validator) # "" THEN [err |-> Ok, value |-> validator]
      ELSE IF devEmail # "" /\ matching > 0
      THEN [err |-> Ok, value |-> Some(projectStakeholders[matching].id)]
      ELSE IF manu > 0 THEN [err |-> Ok, value |-> Some(projectStakeholders[manu].id)]
      ELSE IF Len(projectStakeholders) > 0
      THEN [err |-> [Err("NO_VALIDATOR_ASSIGNABLE", <<"validator">>) EXCEPT
                       !.listed = [i \in 1..Len(projectStakeholders) |->
                                     projectStakeholders[i].id]],
            value |-> Undefined]
      ELSE [err |-> Err("NO_STAKEHOLDERS_IN_PROJECT", <<"validator">>), value |-> Undefined]

(***************************************************************************)
(* Vocabulary checks.  Each returns [err, data]: data is the argument with *)
(* status (and a bug's priority) replaced by the resolved value.           *)
(***************************************************************************)
validateTaskFields(data) ==
  LET st == resolveValue("taskStatus", ValueOf(data.status))
  IN  IF IsDefined(data.status) /\ ~st.ok
      THEN [err |-> Err("INVALID_STATUS", <<"status">>), data |-> data]
      ELSE LET d1 == IF IsDefined(data.status)
                     THEN [data EXCEPT !.status = Some(st.value)] ELSE data
           IN  IF /\ IsDefined(d1.priority)
                  /\ ~(/\ ValueOf(d1.priority).tag = "label"
                       /\ ValueOf(d1.priority).label \in VALID_TASK_PRIORITIES)
               THEN [err |-> Err("INVALID_PRIORITY", <<"priority">>), data |-> d1]
               ELSE [err |-> Ok, data |-> d1]

validateBugFields(data) ==
  LET st == resolveValue("bugStatus", ValueOf(data.status))
      pr == resolveValue("bugPriority", ValueOf(data.priority).label)
  IN  IF IsDefined(data.status) /\ ~st.ok
      THEN [err |-> Err("INVALID_STATUS", <<"status">>), data |-> data]
      ELSE LET d1 == IF IsDefined(data.status)
                     THEN [data EXCEPT !.status = Some(st.value)] ELSE data
           IN  IF IsDefined(d1.priority) /\ ~pr.ok
               THEN [err |-> Err("INVALID_PRIORITY", <<"priority">>), data |-> d1]
               ELSE IF IsDefined(d1.priority)
               THEN [err |-> Ok, data |-> [d1 EXCEPT !.priority = Some(Label(pr.value))]]
               ELSE [err |-> Ok, data |-> d1]

(***************************************************************************)
(* commits-validation.js.  A commit is [hash, message, date, author].      *)
(***************************************************************************)
validCommit(c) ==
  /\ Trim(c.hash) # ""
  /\ Trim(c.message) # ""
  /\ Trim(c.date) # ""
  /\ Trim(c.author) # ""

validateCommitsField(commits) ==
  IF \A i \in 1..Len(commits) : validCommit(commits[i]) THEN Ok
  ELSE Err("INVALID_COMMITS", <<"commits">>)

\* appendCommitsToCard keeping only the commits of the update.
appendCommitsToCard_Replace(currentCard, newCommits) == newCommits

appendCommitsToCard(currentCard, newCommits) ==
  LET existingCommits == IF IsDefined(currentCard.commits) THEN ValueOf(currentCard.commits) ELSE <<>>
      existingHashes == {existingCommits[i].hash : i \in 1..Len(existingCommits)}
  IN  IF Len(newCommits) = 0 THEN existingCommits
      ELSE existingCommits \o SelectSeq(newCommits, LAMBDA c : c.hash \notin existingHashes)

(***************************************************************************)
(* Implementation plans.  A plan is [isString, text, approach, planStatus, *)
(* steps]: the legacy form is a string (isString, text), the structured    *)
(* form an object; planStatus "" means the key is absent.                  *)
(***************************************************************************)
VALID_STEP_STATUSES == {"pending", "in_progress", "done"}
VALID_PLAN_STATUSES == {"pending", "proposed", "validated", "in_progress", "completed"}

\* migrateImplementationPlan: Undefined stands for null.
migrateImplementationPlan(plan) ==
  IF ~IsDefined(plan) THEN Undefined
  ELSE IF ~ValueOf(plan).isString THEN plan
  ELSE IF Trim(ValueOf(plan).text) # ""
  THEN Some([isString |-> FALSE, text |-> "", approach |-> ValueOf(plan).text,
             planStatus |-> "proposed", steps |-> <<>>])
  ELSE Undefined

validateImplementationPlan(plan) ==
  IF plan.isString THEN Ok
  ELSE IF \/ Trim(plan.approach) = ""
          \/ (plan.planStatus # "" /\ plan.planStatus \notin VALID_PLAN_STATUSES)
          \/ \E i \in 1..Len(plan.steps) :
               \/ Trim(plan.steps[i].description) = ""
               \/ (plan.steps[i].status # "" /\ plan.steps[i].status \notin VALID_STEP_STATUSES)
  THEN Err("INVALID_IMPLEMENTATION_PLAN", <<"implementationPlan">>)
  ELSE Ok

\* The first error of a sequence of check results, Ok when there is none.
firstError(results) ==
  LET i == SelectIndex(results, LAMBDA r : ~r.ok, 1)
  IN  IF i > 0 THEN results[i] ELSE Ok

(***************************************************************************)
(* createCard.  The result is [err, card, newId]: the error thrown (Ok     *)
(* when none), the record written with newCardRef.set and the sequence     *)
(* number minted by the counter transaction.                               *)
(***************************************************************************)
itemComplete(item) == item.role # "" /\ item.goal # "" /\ item.benefit # ""

\* hasGherkin || hasRaw of one scenario
scenarioNotEmpty(sc) == sc.given # "" \/ sc.when # "" \/ sc.then # "" \/ Trim(sc.raw) # ""

\* The check forgotten.
directPriority_Allowed(type, priority) == Ok

\* Tasks cannot have priority set directly: if (priority !== undefined) throw.
directPriority(type, priority) ==
  IF type = "task" /\ IsDefined(priority) THEN Err("DIRECT_PRIORITY", <<"priority">>) ELSE Ok

\* The checks of createCard that only tasks go through, in the order of the code.
createTaskChecks(in) ==
  LET ds == IF IsDefined(in.descriptionStructured) THEN ValueOf(in.descriptionStructured) ELSE <<>>
      acs == IF IsDefined(in.acceptanceCriteriaStructured)
             THEN ValueOf(in.acceptanceCriteriaStructured) ELSE <<>>
      hasAcceptanceCriteria ==
        \/ truthy(in, "acceptanceCriteria") /\ Trim(ValueOf(in.acceptanceCriteria)) # ""
        \/ Len(acs) > 0
  IN  firstError(<<
        validateTaskFields(in).err,
        IF Len(ds) = 0 THEN Err("DESCRIPTION_STRUCTURED_REQUIRED", <<"descriptionStructured">>) ELSE Ok,
        IF \E i \in 1..Len(ds) : ~itemComplete(ds[i])
        THEN Err("DESCRIPTION_STRUCTURED_INCOMPLETE", <<"descriptionStructured">>) ELSE Ok,
        IF ~hasAcceptanceCriteria THEN Err("ACCEPTANCE_CRITERIA_REQUIRED", <<"acceptanceCriteria">>) ELSE Ok,
        IF \E i \in 1..Len(acs) : ~scenarioNotEmpty(acs[i])
        THEN Err("ACCEPTANCE_SCENARIO_EMPTY", <<"acceptanceCriteriaStructured">>) ELSE Ok,
        IF blankString(in, "epic") THEN Err("EPIC_REQUIRED", <<"epic">>) ELSE Ok,
        IF ~blankString(in, "epic") /\ ValueOf(in.epic) \notin Range(ProjectEpics)
        THEN Err("EPIC_NOT_FOUND", <<"epic">>) ELSE Ok,
        directPriority("task", in.priority),
        validateSprintExists(in.sprint),
        resolveValidator(in.validator, in.developer).err >>)

\* applyTypeDefaults on {status, priority}
applyTypeDefaults(type, data) ==
  [data EXCEPT
     !.status = IF truthy(data, "status") THEN data.status ELSE Some(TYPE_DEFAULTS[type].status),
     !.priority = IF IsDefined(data.priority) /\ ValueOf(data.priority).label # ""
                  THEN data.priority ELSE Some(Label(TYPE_DEFAULTS[type].priority))]

createCard(in, type, firebaseId, lastId, scoring) ==
  LET err == firstError(<<
               validateEntityIds(in),
               IF type = "task" /\ IsDefined(in.implementationPlan)
               THEN validateImplementationPlan(ValueOf(in.implementationPlan)) ELSE Ok,
               IF type = "bug" THEN validateBugFields(in).err ELSE createTaskChecks(in),
               IF ProjectAbbreviation = "" THEN Err("NO_ABBREVIATION", <<>>) ELSE Ok >>)
      newId == lastId + 1
      dataWithDefaults == applyTypeDefaults(type, in)
      validator == IF type = "task" THEN resolveValidator(in.validator, in.developer).value
                   ELSE in.validator
      plan == ValueOf(in.implementationPlan)
      calculatedPriority ==
        calculatePriority(in.businessPoints, in.devPoints, IF scoring = "" THEN "1-5" ELSE scoring)
      cardData ==
        [f \in Fields |->
           CASE f = "cardId" -> Some([counterKey |-> <<ProjectAbbreviation, SECTION_ABBR[type]>>,
                                      seq |-> newId])
             [] f = "cardType" -> Some(CARD_TYPE_MAP[type])
             [] f = "group" -> Some(GROUP_MAP[type])
             [] f = "projectId" -> Some(ProjectId)
             [] f = "firebaseId" -> Some(firebaseId)
             [] f = "title" -> in.title
             [] f = "status" -> dataWithDefaults.status
             [] f = "priority" ->
                  IF type = "task" /\ IsDefined(calculatedPriority)
                  THEN Some(Rank(ValueOf(calculatedPriority)))
                  ELSE dataWithDefaults.priority
             [] f = "descriptionStructured" ->
                  IF IsDefined(in[f]) /\ Len(ValueOf(in[f])) > 0 THEN in[f] ELSE Undefined
             [] f = "acceptanceCriteria" ->
                  IF truthy(in, f) /\ Trim(ValueOf(in[f])) # "" THEN in[f] ELSE Undefined
             [] f = "acceptanceCriteriaStructured" ->
                  IF IsDefined(in[f]) /\ Len(ValueOf(in[f])) > 0 THEN in[f] ELSE Undefined
             [] f = "implementationPlan" ->
                  IF type = "task" /\ IsDefined(in[f])
                  THEN (IF plan.isString
                        THEN (IF plan.text = "" THEN Undefined
                              ELSE Some([isString |-> FALSE, text |-> "", approach |-> "",
                                         planStatus |-> "pending", steps |-> <<>>]))
                        ELSE Some([plan EXCEPT
                                     !.planStatus = IF plan.planStatus = "" THEN "pending" ELSE @]))
                  ELSE Undefined
             [] f = "validator" -> IF truthy([in EXCEPT !.validator = validator], f)
                                   THEN validator ELSE Undefined
             [] f \in {"epic", "developer", "sprint"} -> IF truthy(in, f) THEN in[f] ELSE Undefined
             [] f \in {"devPoints", "businessPoints"} -> in[f]
             [] OTHER -> Undefined]
  IN  [err |-> err, card |-> cardData, newId |-> newId]

(***************************************************************************)
(* updateCard in apply mode.  The result is [err, updates]: the error      *)
(* thrown (Ok when none) and the object handed to cardRef.update.          *)
(***************************************************************************)
planOf(currentCard, updates) ==
  IF IsDefined(updates.implementationPlan) THEN updates.implementationPlan
  ELSE migrateImplementationPlan(currentCard.implementationPlan)

\* withPlanStatus starting a plan that is only proposed.
withPlanStatus_FromProposed(currentCard, updates, type) ==
  IF /\ type = "task"
     /\ updates.status = Some("In Progress")
     /\ IsDefined(planOf(currentCard, updates))
     /\ ~ValueOf(planOf(currentCard, updates)).isString
     /\ ValueOf(planOf(currentCard, updates)).planStatus \in {"proposed", "validated"}
  THEN [updates EXCEPT
          !.implementationPlan =
             Some([ValueOf(planOf(currentCard, updates)) EXCEPT !.planStatus = "in_progress"])]
  ELSE IF /\ type = "task"
          /\ updates.status = Some("To Validate")
          /\ IsDefined(planOf(currentCard, updates))
          /\ ~ValueOf(planOf(currentCard, updates)).isString
          /\ ValueOf(planOf(currentCard, updates)).planStatus # "completed"
  THEN [updates EXCEPT
          !.implementationPlan =
             Some([ValueOf(planOf(currentCard, updates)) EXCEPT !.planStatus = "completed"])]
  ELSE updates

\* planStatus follows the task: validated -> in_progress on "In Progress",
\* anything but completed -> completed on "To Validate".
withPlanStatus(currentCard, updates, type) ==
  LET currentPlan == planOf(currentCard, updates)
      newStatus == ValueOf(updates.status)
      advanced(to) == [updates EXCEPT
                         !.implementationPlan = Some([ValueOf(currentPlan) EXCEPT !.planStatus = to])]
  IN  IF type # "task" \/ ~truthy(updates, "status") \/ ~IsDefined(currentPlan) THEN updates
      ELSE IF ValueOf(currentPlan).isString THEN updates
      ELSE IF newStatus = "In Progress" /\ ValueOf(currentPlan).planStatus = "validated"
      THEN advanced("in_progress")
      ELSE IF newStatus = "To Validate" /\ ValueOf(currentPlan).planStatus # "completed"
      THEN advanced("completed")
      ELSE updates

\* Leaving "To Do" without a sprint takes the project's active sprint.
withActiveSprint(currentCard, updates, type) ==
  IF /\ type = "task"
     /\ truthy(updates, "status")
     /\ normalizedStatus(currentCard) = "todo"
     /\ ValueOf(updates.status) # "To Do"
     /\ ~truthy(updates, "sprint")
     /\ ~truthy(currentCard, "sprint")
     /\ IsDefined(getActiveSprint)
  THEN [updates EXCEPT !.sprint = Some(ValueOf(getActiveSprint).cardId)]
  ELSE updates

\* withStartDate overwriting the start date the card has.
withStartDate_Overwriting(currentCard, updates, type) ==
  IF type = "task" /\ updates.status = Some("In Progress") /\ ~truthy(updates, "startDate")
  THEN [updates EXCEPT !.startDate = Some(Today)]
  ELSE updates

withStartDate(currentCard, updates, type) ==
  IF /\ type = "task"
     /\ updates.status = Some("In Progress")
     /\ ~truthy(updates, "startDate")
     /\ ~truthy(currentCard, "startDate")
  THEN [updates EXCEPT !.startDate = Some(Today)]
  ELSE updates

\* withPriority looking for the points in the update only.
withPriority_FromUpdateOnly(currentCard, updates, type, scoring) ==
  LET calculatedPriority ==
        calculatePriority(updates.businessPoints, updates.devPoints,
                          IF scoring = "" THEN "1-5" ELSE scoring)
  IN  IF type = "task" /\ IsDefined(calculatedPriority)
      THEN [updates EXCEPT !.priority = Some(Rank(ValueOf(calculatedPriority)))]
      ELSE updates

withPriority(currentCard, updates, type, scoring) ==
  LET finalDevPoints == IF IsDefined(updates.devPoints) THEN updates.devPoints
                        ELSE currentCard.devPoints
      finalBizPoints == IF IsDefined(updates.businessPoints) THEN updates.businessPoints
                        ELSE currentCard.businessPoints
      calculatedPriority ==
        calculatePriority(finalBizPoints, finalDevPoints, IF scoring = "" THEN "1-5" ELSE scoring)
  IN  IF type = "task" /\ IsDefined(calculatedPriority)
      THEN [updates EXCEPT !.priority = Some(Rank(ValueOf(calculatedPriority)))]
      ELSE updates

\* The checks of apply mode in the order of the code; validated is what
\* validateTaskFields / validateBugFields made of the update.
updateChecks(currentCard, updates, validated, type) ==
  firstError(<<
    IF \E i \in 1..Len(protectedFields) : IsDefined(updates[protectedFields[i]])
    THEN Err("PROTECTED_FIELD",
             <<SelectSeq(protectedFields, LAMBDA f : IsDefined(updates[f]))[1]>>)
    ELSE Ok,
    validateEntityIds(updates),
    validated.err,
    IF type = "bug" THEN validateBugStatusTransition(currentCard, validated.data)
    ELSE validateStatusTransition(currentCard, validated.data, type),
    directPriority(type, updates.priority),
    IF type = "task" /\ IsDefined(updates.sprint) THEN validateSprintExists(updates.sprint) ELSE Ok,
    IF IsDefined(updates.commits) THEN validateCommitsField(ValueOf(updates.commits)) ELSE Ok,
    IF type = "task" /\ IsDefined(migrateImplementationPlan(updates.implementationPlan))
    THEN validateImplementationPlan(ValueOf(migrateImplementationPlan(updates.implementationPlan)))
    ELSE Ok >>)

\* updates.commits = appendCommitsToCard(currentCard, updates.commits)
withCommits(currentCard, updates) ==
  IF IsDefined(updates.commits)
  THEN [updates EXCEPT !.commits = Some(appendCommitsToCard(currentCard, ValueOf(updates.commits)))]
  ELSE updates

\* updates.implementationPlan = migratedPlan
withMigratedPlan(updates, type) ==
  IF type = "task" /\ IsDefined(migrateImplementationPlan(updates.implementationPlan))
  THEN [updates EXCEPT !.implementationPlan = migrateImplementationPlan(@)]
  ELSE updates

\* What apply mode makes of a validated update before it writes it: each
\* block of the code works on the updates the block before it left.
updateWritten(currentCard, updates, type, scoring) ==
  CHOOSE written \in
    {withPriority(currentCard, u5, type, scoring) :
       u5 \in {withStartDate(currentCard, u4, type) :
         u4 \in {withActiveSprint(currentCard, u3, type) :
           u3 \in {withPlanStatus(currentCard, u2, type) :
             u2 \in {withMigratedPlan(u1, type) :
               u1 \in {withCommits(currentCard, updates)}}}}}} : TRUE

updateValidated(currentCard, updates, validated, type, scoring) ==
  [err |-> updateChecks(currentCard, updates, validated, type),
   updates |-> updateWritten(currentCard, validated.data, type, scoring)]

updateCard(currentCard, updates, type, scoring) ==
  CHOOSE result \in
    {updateValidated(currentCard, updates, validated, type, scoring) :
       validated \in {IF type = "bug" THEN validateBugFields(updates)
                      ELSE validateTaskFields(updates)}} : TRUE

(***************************************************************************)
(* updateCard with validateOnly: the report returned instead of writing.   *)
(* Each collector gives the error codes it pushed, in order.               *)
(***************************************************************************)
collectEntityIdIssues(data) ==
  SelectSeq(EntityFields,
    LAMBDA f : truthy(data, f) /\ ~startsWith(ValueOf(data[f]), VALID_ID_PREFIXES[f]))

\* The vocabularies are compared as they are written: includes(), no resolveValue.
collectBugValidationIssues(data) ==
  (IF IsDefined(data.status) /\ ValueOf(data.status) \notin listKeys("bugStatus")
   THEN <<"INVALID_STATUS">> ELSE <<>>)
  \o (IF /\ IsDefined(data.priority)
         /\ ~(/\ ValueOf(data.priority).tag = "label"
              /\ ValueOf(data.priority).label \in listKeys("bugPriority"))
      THEN <<"INVALID_PRIORITY">> ELSE <<>>)

collectTaskValidationIssues(data) ==
  (IF IsDefined(data.status) /\ ValueOf(data.status) \notin listKeys("taskStatus")
   THEN <<"INVALID_STATUS">> ELSE <<>>)
  \o (IF /\ IsDefined(data.priority)
         /\ ~(/\ ValueOf(data.priority).tag = "label"
              /\ ValueOf(data.priority).label \in VALID_TASK_PRIORITIES)
      THEN <<"INVALID_PRIORITY">> ELSE <<>>)

NoIssues == [valid |-> TRUE, missingFields |-> <<>>, errors |-> <<>>]

\* What collectValidationIssues finds on finalCard = { ...currentCard, ...updates }.
collectFinalCardIssues(currentCard, newStatus, finalCard) ==
  LET leaving == normalizedStatus(currentCard) = "todo" /\ newStatus # "To Do"
      missingBase == IF leaving THEN missingToLeaveToDo(finalCard) ELSE <<>>
      toValidate == newStatus = "To Validate"
      noStartDate == toValidate /\ ~hasValidValue(finalCard, "startDate")
      noCommits == toValidate /\ ~hasCommits(finalCard)
      stillMissing ==
        IF toValidate
        THEN SelectSeq(missingToLeaveToDo(finalCard), LAMBDA f : f \notin Range(missingBase))
        ELSE <<>>
      missingFields ==
        missingBase
        \o (IF noStartDate THEN <<"startDate">> ELSE <<>>)
        \o (IF noCommits THEN <<"commits">> ELSE <<>>)
        \o stillMissing
      errors ==
        (IF Len(missingBase) > 0 THEN <<"MISSING_REQUIRED_FIELDS">> ELSE <<>>)
        \o (IF noStartDate THEN <<"MISSING_START_DATE">> ELSE <<>>)
        \o (IF noCommits THEN <<"MISSING_COMMITS">> ELSE <<>>)
        \o [i \in 1..Len(stillMissing) |-> "MISSING_REQUIRED_FIELD"]
  IN  [valid |-> Len(missingFields) = 0, missingFields |-> missingFields, errors |-> errors]

collectValidationIssues(currentCard, updates, type) ==
  IF type # "task" THEN NoIssues
  ELSE IF ~truthy(updates, "status") THEN NoIssues
  ELSE IF currentCard.status = updates.status THEN NoIssues
  ELSE IF ValueOf(updates.status) \in VALIDATOR_ONLY_STATUSES
  THEN [valid |-> FALSE, missingFields |-> <<>>, errors |-> <<"VALIDATOR_ONLY_STATUS">>]
  ELSE collectFinalCardIssues(currentCard, ValueOf(updates.status), Merge(currentCard, updates))

NoReport ==
  [valid |-> TRUE, protectedFieldsViolation |-> <<>>, typeValidation |-> <<>>,
   statusTransitionValidation |-> NoIssues, missingFields |-> <<>>,
   commitsValid |-> TRUE, entityIdIssues |-> <<>>]

\* The validationResult of the validateOnly branch.
validateOnly(currentCard, updates, type) ==
  LET protectedFieldsInUpdate == SelectSeq(protectedFields, LAMBDA f : IsDefined(updates[f]))
      typeValidation == IF type = "bug" THEN collectBugValidationIssues(updates)
                        ELSE collectTaskValidationIssues(updates)
      statusTransitionValidation == collectValidationIssues(currentCard, updates, type)
      commitsValid == IF IsDefined(updates.commits)
                      THEN validateCommitsField(ValueOf(updates.commits)).ok ELSE TRUE
      entityIdIssues == collectEntityIdIssues(updates)
  IN  [valid |-> /\ Len(protectedFieldsInUpdate) = 0
                 /\ Len(typeValidation) = 0
                 /\ statusTransitionValidation.valid
                 /\ commitsValid
                 /\ Len(entityIdIssues) = 0,
       protectedFieldsViolation |-> protectedFieldsInUpdate,
       typeValidation |-> typeValidation,
       statusTransitionValidation |-> statusTransitionValidation,
       missingFields |-> statusTransitionValidation.missingFields,
       commitsValid |-> commitsValid,
       entityIdIssues |-> entityIdIssues]

(***************************************************************************)
(* The state: the cards of the project by firebase key, the Firestore      *)
(* counters by card type, the project's scoring system ("" when it is not  *)
(* configured), the priority maps, and a record of the last call with its  *)
(* outcome (err of apply mode, report of validateOnly).  reply is the      *)
(* answer to the latest direct call of a helper (list service, priority    *)
(* calculator, sprint and validator lookup); pending holds the createCard  *)
(* calls that are inside their counter transaction.                        *)
(***************************************************************************)
VARIABLES cards, counters, scoringSystem, last, reply, pending

vars == <<cards, counters, scoringSystem, PRIORITY_MAPS, last, rtdb, now, cache, reply, pending>>

\* What the card handlers neither write nor advance.
others == <<rtdb, now, reply, pending>>

Types == {"task", "bug"}

typeOf(card) == IF card.cardType = Some("bug-card") THEN "bug" ELSE "task"

NoCall ==
  [op |-> "none", type |-> "task", key |-> "", args |-> NoFields, before |-> NoFields, err |-> Ok,
   report |-> NoReport]

NoReply ==
  [op |-> "none", args |-> <<>>, ok |-> TRUE, error |-> "", value |-> <<>>, loaded |-> {}]

\* The module as loaded, over a database db, before any call.
Loaded(scoringSystems, db) ==
  /\ cards = <<>>
  /\ counters = [t \in Types |-> 0]
  /\ scoringSystem \in scoringSystems
  /\ PRIORITY_MAPS = [s \in {"1-5", "fibonacci"} |-> generatePriorityMap(s)]
  /\ last = NoCall
  /\ rtdb \in db
  /\ now = 0
  /\ cache = [t \in ListTypes |-> Undefined]
  /\ reply = NoReply
  /\ pending = <<>>

InitWith(scoringSystems) == Loaded(scoringSystems, {MockRtdb})

\* The list types validateBugFields / validateTaskFields read for data.
listsOfValidateFields(data, type) ==
  IF type = "bug"
  THEN (IF IsDefined(data.status) THEN {"bugStatus"} ELSE {}) \cup
       (IF /\ IsDefined(data.priority)
           /\ IsDefined(data.status) => resolveValue("bugStatus", ValueOf(data.status)).ok
        THEN {"bugPriority"} ELSE {})
  ELSE IF IsDefined(data.status) THEN {"taskStatus"} ELSE {}

\* The list types createCard reads: none when an earlier check throws.
listsOfCreateCard(in, type) ==
  IF /\ validateEntityIds(in).ok
     /\ type = "task" /\ IsDefined(in.implementationPlan)
          => validateImplementationPlan(ValueOf(in.implementationPlan)).ok
  THEN listsOfValidateFields(in, type) ELSE {}

\* The list types updateCard reads in apply mode ...
listsOfUpdateCard(updates, type) ==
  IF /\ \A i \in 1..Len(protectedFields) : ~IsDefined(updates[protectedFields[i]])
     /\ validateEntityIds(updates).ok
  THEN listsOfValidateFields(updates, type) ELSE {}

\* ... and with validateOnly: the collectors read their lists first.
listsOfValidateOnly(type) ==
  IF type = "bug" THEN {"bugStatus", "bugPriority"} ELSE {"taskStatus"}

\* CreateOutcome with the counter transaction ahead of the checks.
CreateOutcome_CounterFirst(key, type, in, r) ==
  /\ last' = [op |-> "create", type |-> type, key |-> key, args |-> in,
              before |-> NoFields, err |-> r.err, report |-> NoReport]
  /\ counters' = [counters EXCEPT ![type] = r.newId]
  /\ IF r.err.ok THEN cards' = (key :> r.card) @@ cards ELSE UNCHANGED cards
  /\ cache' = cacheAfterGetList(listsOfCreateCard(in, type))
  /\ UNCHANGED <<scoringSystem, PRIORITY_MAPS, others>>

\* newCardRef.set(cardData) and the counter transaction, or the error thrown.
CreateOutcome(key, type, in, r) ==
  /\ last' = [op |-> "create", type |-> type, key |-> key, args |-> in,
              before |-> NoFields, err |-> r.err, report |-> NoReport]
  /\ IF r.err.ok
     THEN /\ counters' = [counters EXCEPT ![type] = r.newId]
          /\ cards' = (key :> r.card) @@ cards
     ELSE UNCHANGED <<cards, counters>>
  /\ cache' = cacheAfterGetList(listsOfCreateCard(in, type))
  /\ UNCHANGED <<scoringSystem, PRIORITY_MAPS, others>>

\* createCard({projectId, type, ...in}): push() hands out a key not in use.
CreateCard(key, type, in) ==
  /\ key \notin DOMAIN cards
  /\ \E r \in {createCard(in, type, key, counters[type], scoringSystem)} :
       CreateOutcome(key, type, in, r)

\* cardRef.update(updates), or the error thrown.
UpdateOutcome(key, type, updates, r) ==
  /\ last' = [op |-> "update", type |-> type, key |-> key, args |-> updates,
              before |-> cards[key], err |-> r.err, report |-> NoReport]
  /\ IF r.err.ok
     THEN cards' = [cards EXCEPT ![key] = Merge(cards[key], r.updates)]
     ELSE UNCHANGED cards
  /\ cache' = cacheAfterGetList(listsOfUpdateCard(updates, type))
  /\ UNCHANGED <<counters, scoringSystem, PRIORITY_MAPS, others>>

\* updateCard({projectId, type, firebaseId: key, updates}) on a card of the section.
UpdateCard(key, updates) ==
  /\ key \in DOMAIN cards
  /\ \E r \in {updateCard(cards[key], updates, typeOf(cards[key]), scoringSystem)} :
       UpdateOutcome(key, typeOf(cards[key]), updates, r)

\* ValidateCard writing the update it found valid.
ValidateCard_Applying(key, updates) ==
  /\ key \in DOMAIN cards
  /\ last' = [op |-> "validate", type |-> typeOf(cards[key]), key |-> key, args |-> updates,
              before |-> cards[key], err |-> Ok,
              report |-> validateOnly(cards[key], updates, typeOf(cards[key]))]
  /\ cards' = IF validateOnly(cards[key], updates, typeOf(cards[key])).valid
              THEN [cards EXCEPT ![key] = Merge(cards[key], updates)] ELSE cards
  /\ cache' = cacheAfterGetList(listsOfValidateOnly(typeOf(cards[key])))
  /\ UNCHANGED <<counters, scoringSystem, PRIORITY_MAPS, others>>

\* updateCard({..., validateOnly: true}): the report is returned, nothing is written.
ValidateCard(key, updates) ==
  /\ key \in DOMAIN cards
  /\ last' = [op |-> "validate", type |-> typeOf(cards[key]), key |-> key, args |-> updates,
              before |-> cards[key], err |-> Ok,
              report |-> validateOnly(cards[key], updates, typeOf(cards[key]))]
  /\ cache' = cacheAfterGetList(listsOfValidateOnly(typeOf(cards[key])))
  /\ UNCHANGED <<cards, counters, scoringSystem, PRIORITY_MAPS, others>>

(***************************************************************************)
(* Arguments of the calls.  The values are those of tests/cards.test.js    *)
(* cut down to what the checks tell apart.                                 *)
(***************************************************************************)
story == [role |-> "developer", goal |-> "goal", benefit |-> "benefit"]

commit(hash) == [hash |-> hash, message |-> "fix", date |-> "2024-05-01", author |-> "ana"]

\* { [field]: value }
Single(field, value) == [NoFields EXCEPT ![field] = Some(value)]

\* The arguments every accepted createCard of a task carries.
TaskArgs ==
  [NoFields EXCEPT !.title = Some("Task"),
                   !.descriptionStructured = Some(<<story>>),
                   !.acceptanceCriteria = Some("criteria"),
                   !.epic = Some("PLN-EPC-0001")]

\* ... with the fields a task needs to leave "To Do".
FullTaskArgs ==
  [TaskArgs EXCEPT !.developer = Some("dev_1"),
                   !.sprint = Some("PLN-SPR-0001"),
                   !.devPoints = Some(2),
                   !.businessPoints = Some(3)]

BugArgs == [NoFields EXCEPT !.title = Some("Bug")]

\* status: in an update, or nothing
StatusUpdates(statuses) == {NoFields} \cup {Single("status", s) : s \in statuses}

TaskStatuses == {"To Do", "In Progress", "To Validate", "Done&Validated", "Blocked", "Reopened"}

(***************************************************************************)
(* Spec: tasks moving between statuses.  Tasks are created in any status,  *)
(* complete or bare; an update carries a status, or the fields the gates   *)
(* ask for, or a protected field, or a status with either.                 *)
(***************************************************************************)
Init == InitWith({"1-5"})

StatusCreates ==
  {[base EXCEPT !.status = st] :
     base \in {TaskArgs, FullTaskArgs},
     st \in {Undefined, Some("In Progress"), Some("To Validate"), Some("Done&Validated"),
             Some("Bogus")}}

\* What "To Validate" and "Blocked" ask for beyond the base fields, in one update.
GateFields ==
  [NoFields EXCEPT !.startDate = Some("2024-05-01"),
                   !.commits = Some(<<commit("h1")>>),
                   !.blockedByDevelopment = Some(TRUE),
                   !.bbdWhy = Some("why"),
                   !.bbdWho = Some("who")]

StatusExtras == {NoFields, GateFields, Single("cardId", "PLN-TSK-0009")}

StatusUpdateArgs ==
  {Merge(s, e) : s \in StatusUpdates(TaskStatuses \cup {"done&validated", "Bogus"}),
                 e \in StatusExtras}

Next ==
  \/ \E in \in StatusCreates : CreateCard("k1", "task", in)
  \/ \E updates \in StatusUpdateArgs : UpdateCard("k1", updates)

Spec == Init /\ [][Next]_vars

(***************************************************************************)
(* SpecLeaveToDo: tasks created in "To Do", bare or complete; updates fill *)
(* in or blank out one required field, propose a status, or both.          *)
(***************************************************************************)
LeaveToDoCreates == {TaskArgs, FullTaskArgs}

LeaveToDoExtras ==
  {NoFields,
   Single("developer", "dev_1"), Single("sprint", "PLN-SPR-0001"),
   Single("devPoints", 2), Single("businessPoints", 3),
   Single("validator", ""), Single("epic", "  "), Single("acceptanceCriteria", ""),
   Single("title", "  ")}

LeaveToDoUpdateArgs ==
  {Merge(s, e) : s \in StatusUpdates({"In Progress", "Blocked", "Done&Validated"}),
                 e \in LeaveToDoExtras}

NextLeaveToDo ==
  \/ \E in \in LeaveToDoCreates : CreateCard("k1", "task", in)
  \/ \E updates \in LeaveToDoUpdateArgs : UpdateCard("k1", updates)

SpecLeaveToDo == Init /\ [][NextLeaveToDo]_vars

(***************************************************************************)
(* SpecToValidate: tasks with or without a sprint, in "To Do" or           *)
(* "In Progress"; updates carry a start date, commits or the sprint, and   *)
(* propose "In Progress" or "To Validate".                                 *)
(***************************************************************************)
ToValidateCreates ==
  {[base EXCEPT !.status = st] :
     base \in {FullTaskArgs, [FullTaskArgs EXCEPT !.sprint = Undefined]},
     st \in {Undefined, Some("In Progress")}}

ToValidateExtras ==
  {NoFields,
   Single("startDate", "2024-05-01"), Single("startDate", "  "),
   Single("commits", <<commit("h1")>>), Single("commits", <<>>),
   Single("sprint", "PLN-SPR-0001")}

ToValidateUpdateArgs ==
  {Merge(s, e) : s \in StatusUpdates({"In Progress", "To Validate", "to validate"}),
                 e \in ToValidateExtras}

NextToValidate ==
  \/ \E in \in ToValidateCreates : CreateCard("k1", "task", in)
  \/ \E updates \in ToValidateUpdateArgs : UpdateCard("k1", updates)

SpecToValidate == Init /\ [][NextToValidate]_vars

(***************************************************************************)
(* SpecBlocked: complete tasks; updates set or clear the blocker flags,    *)
(* give reasons and owners, and propose "Blocked" or "In Progress".        *)
(***************************************************************************)
BlockedCreates == {[FullTaskArgs EXCEPT !.status = st] : st \in {Undefined, Some("In Progress")}}

BlockedExtras ==
  {NoFields,
   Single("blockedByBusiness", TRUE), Single("blockedByBusiness", FALSE),
   Single("bbbWhy", "why"), Single("bbbWhy", "  "), Single("bbbWho", "who"),
   Single("blockedByDevelopment", TRUE), Single("bbdWhy", "why"), Single("bbdWho", "who")}

BlockedUpdateArgs ==
  {Merge(s, e) : s \in StatusUpdates({"In Progress", "Blocked"}), e \in BlockedExtras}

NextBlocked ==
  \/ \E in \in BlockedCreates : CreateCard("k1", "task", in)
  \/ \E updates \in BlockedUpdateArgs : UpdateCard("k1", updates)

SpecBlocked == Init /\ [][NextBlocked]_vars

(***************************************************************************)
(* SpecBug: bugs; updates carry commits, a root cause or a resolution, and *)
(* propose "Fixed" or "Closed".                                            *)
(***************************************************************************)
BugCreates == {[BugArgs EXCEPT !.status = st] : st \in {Undefined, Some("Fixed"), Some("Bogus")}}

BugExtras ==
  {NoFields,
   Single("commits", <<commit("h1")>>), Single("commits", <<>>),
   Single("rootCause", "cause"), Single("rootCause", "  "),
   Single("resolution", "fix"), Single("resolution", "")}

BugUpdateArgs ==
  {Merge(s, e) : s \in StatusUpdates({"Fixed", "Closed", "closed"}), e \in BugExtras}

NextBug ==
  \/ \E in \in BugCreates : CreateCard("k1", "bug", in)
  \/ \E updates \in BugUpdateArgs : UpdateCard("k1", updates)

SpecBug == Init /\ [][NextBug]_vars

(***************************************************************************)
(* SpecPriority: tasks with and without points under each scoring system;  *)
(* calls give points, a priority, or both, next to valid and invalid       *)
(* other fields.                                                           *)
(***************************************************************************)
InitPriority == InitWith({"", "1-5", "fibonacci"})

Priorities == {Undefined, Some(Label("High")), Some(Label("Urgent"))}

PriorityCreates ==
  {[base EXCEPT !.priority = pr, !.status = st] :
     base \in {TaskArgs,
               [TaskArgs EXCEPT !.devPoints = Some(2), !.businessPoints = Some(3)],
               [TaskArgs EXCEPT !.devPoints = Some(0), !.businessPoints = Some(3)]},
     pr \in Priorities,
     st \in {Undefined, Some("Bogus")}}

PriorityExtras ==
  {NoFields,
   Single("devPoints", 0), Single("devPoints", 1), Single("devPoints", 2),
   Single("businessPoints", 0), Single("businessPoints", 3), Single("businessPoints", 8),
   Single("developer", "bob"), Single("status", "Bogus")}

PriorityUpdateArgs ==
  {[e EXCEPT !.priority = pr] : e \in PriorityExtras, pr \in Priorities}

NextPriority ==
  \/ \E in \in PriorityCreates : CreateCard("k1", "task", in)
  \/ \E updates \in PriorityUpdateArgs : UpdateCard("k1", updates)

SpecPriority == InitPriority /\ [][NextPriority]_vars

(***************************************************************************)
(* SpecCommits: a task and a bug; updates supply commit lists: empty, new  *)
(* hashes, hashes already stored (with another message), the same hash     *)
(* twice in one list, a commit without hash.                               *)
(***************************************************************************)
CommitLists ==
  {<<>>,
   <<commit("h1")>>,
   <<commit("h2"), commit("h1")>>,
   <<commit("h3")>>,
   <<[commit("h1") EXCEPT !.message = "again"]>>,
   <<commit("h2"), commit("h2")>>,
   <<commit("  ")>>}

CommitsUpdateArgs == {Single("commits", cs) : cs \in CommitLists}

NextCommits ==
  \/ CreateCard("k1", "task", FullTaskArgs)
  \/ CreateCard("k2", "bug", BugArgs)
  \/ \E key \in {"k1", "k2"}, updates \in CommitsUpdateArgs : UpdateCard(key, updates)

SpecCommits == Init /\ [][NextCommits]_vars

(***************************************************************************)
(* SpecModes: a task or a bug next to another bug; the same updates go     *)
(* through apply mode and validateOnly: each protected field, statuses in  *)
(* and out of the vocabulary, a priority, an unknown sprint, commits and   *)
(* plans well and ill formed, a malformed developer id.                    *)
(***************************************************************************)
plan(approach, planStatus) ==
  [isString |-> FALSE, text |-> "", approach |-> approach, planStatus |-> planStatus,
   steps |-> <<>>]

ModesCreates ==
  [task |-> {TaskArgs, FullTaskArgs, [TaskArgs EXCEPT !.status = Some("Bogus")]},
   bug |-> {BugArgs, [BugArgs EXCEPT !.status = Some("Bogus")]}]

ModesUpdateArgs ==
  {Single("cardId", "PLN-TSK-0009"), Single("firebaseId", "k9"), Single("cardType", "bug-card"),
   Single("group", "bugs"), Single("projectId", "Other"),
   Single("status", "In Progress"), Single("status", "to validate"),
   Single("status", "Blocked"), Single("status", "Done&Validated"),
   Single("status", "Closed"), Single("status", "Bogus"),
   Single("priority", Label("High")),
   Single("sprint", "PLN-SPR-0009"),
   Single("commits", <<commit("h1")>>), Single("commits", <<commit("  ")>>),
   Single("implementationPlan", plan("  ", "proposed")),
   Single("developer", "bob")}

NextModes ==
  \/ \E type \in Types : \E in \in ModesCreates[type] : CreateCard("k1", type, in)
  \/ \E in \in ModesCreates.bug : CreateCard("k2", "bug", in)
  \/ \E updates \in ModesUpdateArgs : UpdateCard("k1", updates)
  \/ \E updates \in ModesUpdateArgs : ValidateCard("k1", updates)

SpecModes == Init /\ [][NextModes]_vars

(***************************************************************************)
(* SpecOrder: updates that break several rules at once: a protected field, *)
(* a malformed developer id, a status out of the vocabulary or short of    *)
(* its required fields, malformed commits or plan, in every combination.   *)
(***************************************************************************)
OrderCreates == [task |-> {TaskArgs, FullTaskArgs}, bug |-> {BugArgs}]

OrderUpdateArgs ==
  {Merge(Merge(p, e), Merge(st, sub)) :
     p \in {NoFields, Single("cardId", "PLN-TSK-0009")},
     e \in {NoFields, Single("developer", "bob")},
     st \in {NoFields, Single("status", "Bogus"), Single("status", "To Validate"),
             Single("status", "Closed")},
     sub \in {NoFields, Single("commits", <<commit("h1")>>), Single("commits", <<commit("  ")>>),
              Single("implementationPlan", plan("  ", "proposed"))}}

NextOrder ==
  \/ \E type \in Types : \E in \in OrderCreates[type] : CreateCard("k1", type, in)
  \/ \E updates \in OrderUpdateArgs : UpdateCard("k1", updates)

SpecOrder == Init /\ [][NextOrder]_vars

(***************************************************************************)
(* SpecPlan: complete tasks created with and without a plan in each plan   *)
(* status; updates move the task between statuses, supply commits, or      *)
(* supply a plan (structured, or the legacy string).                       *)
(***************************************************************************)
PlanCreates ==
  {FullTaskArgs} \cup
  {[FullTaskArgs EXCEPT !.implementationPlan = Some(plan("Use TDD", st))] :
     st \in {"", "proposed", "validated", "completed"}}

legacyPlan(text) ==
  [isString |-> TRUE, text |-> text, approach |-> "", planStatus |-> "", steps |-> <<>>]

PlanExtras ==
  {NoFields,
   Single("commits", <<commit("h1")>>),
   Single("implementationPlan", plan("Use TDD", "validated")),
   Single("implementationPlan", plan("Use TDD", "pending")),
   Single("implementationPlan", legacyPlan("Use TDD"))}

PlanUpdateArgs ==
  {Merge(s, e) : s \in StatusUpdates({"To Do", "In Progress", "To Validate", "Reopened"}),
                 e \in PlanExtras}

NextPlan ==
  \/ \E in \in PlanCreates : CreateCard("k1", "task", in)
  \/ \E updates \in PlanUpdateArgs : UpdateCard("k1", updates)

SpecPlan == Init /\ [][NextPlan]_vars

(***************************************************************************)
(* Direct calls of the list service.  reply.loaded holds the list types    *)
(* the call went to the database for.                                      *)
(***************************************************************************)
ListReply(op, args, ok, error, value) ==
  [op |-> op, args |-> args, ok |-> ok, error |-> error, value |-> value,
   loaded |-> IF cached(args[1]) THEN {} ELSE {args[1]}]

ListCall(listType, answer) ==
  /\ reply' = answer
  /\ cache' = cacheAfterGetList({listType})
  /\ UNCHANGED <<cards, counters, scoringSystem, PRIORITY_MAPS, last, rtdb, now, pending>>

GetListTexts(listType) ==
  ListCall(listType, ListReply("getListTexts", <<listType>>, TRUE, "", getListTexts(listType)))

IsValidValue(listType, value) ==
  ListCall(listType,
    ListReply("isValidValue", <<listType, value>>, TRUE, "", isValidValue(listType, value)))

\* The value resolved, or the error thrown: Invalid <listType> value "<value>".
ResolveValue(listType, value) ==
  \E r \in {resolveValue(listType, value)} :
    ListCall(listType,
      ListReply("resolveValue", <<listType, value>>, r.ok,
                IF r.ok THEN "" ELSE "INVALID_VALUE", r.value))

InvalidateCache(listType) ==
  /\ cache' = invalidateCache(listType)
  /\ reply' = [op |-> "invalidateCache", args |-> <<listType>>, ok |-> TRUE, error |-> "",
                value |-> <<>>, loaded |-> {}]
  /\ UNCHANGED <<cards, counters, scoringSystem, PRIORITY_MAPS, last, rtdb, now, pending>>

\* The list at LIST_PATHS[listType] is replaced in the database.
SetList(listType, data) ==
  /\ rtdb' = [rtdb EXCEPT !.lists[listType] = data]
  /\ UNCHANGED <<cards, counters, scoringSystem, PRIORITY_MAPS, last, now, cache, reply, pending>>

\* The connection to the database is lost or restored.
SetOnline(online) ==
  /\ rtdb.online # online
  /\ rtdb' = [rtdb EXCEPT !.online = online]
  /\ UNCHANGED <<cards, counters, scoringSystem, PRIORITY_MAPS, last, now, cache, reply, pending>>

\* The clock is watched for MaxMinutes minutes.
MaxMinutes == 6

\* Date.now() moves on by a minute.
Tick ==
  /\ now < MaxMinutes * (CACHE_TTL_MS \div 5)
  /\ now' = now + (CACHE_TTL_MS \div 5)
  /\ UNCHANGED <<cards, counters, scoringSystem, PRIORITY_MAPS, last, rtdb, cache, reply, pending>>

(***************************************************************************)
(* SpecResolve: lookups over a database whose lists are the seeded ones,   *)
(* missing, or lists with keys that differ in case only and with ranks out *)
(* of key order.                                                           *)
(***************************************************************************)
StoredLists ==
  [bugPriority : {FALLBACK_LISTS.bugPriority, <<>>,
                  << [text |-> "Application Blocker", order |-> 2],
                     [text |-> "APPLICATION BLOCKER", order |-> 1] >>},
   bugStatus : {FALLBACK_LISTS.bugStatus, <<>>},
   taskStatus : {FALLBACK_LISTS.taskStatus, <<>>,
                 << [text |-> "TO DO", order |-> 1], [text |-> "To Do", order |-> 2] >>}]

ListValues ==
  {"APPLICATION BLOCKER", "Application Blocker", "application blocker",
   "To Do", "to do", "Closed", "Bogus"}

InitResolve == Loaded({"1-5"}, {[MockRtdb EXCEPT !.lists = l] : l \in StoredLists})

NextResolve ==
  \/ \E listType \in ListTypes : GetListTexts(listType)
  \/ \E listType \in ListTypes, value \in ListValues : ResolveValue(listType, value)
  \/ \E listType \in ListTypes, value \in ListValues : IsValidValue(listType, value)

SpecResolve == InitResolve /\ [][NextResolve]_vars

(***************************************************************************)
(* SpecLists: reads of two lists while the clock advances, the lists are   *)
(* replaced in the database and the cache is invalidated.                  *)
(***************************************************************************)
CachedTypes == {"bugPriority", "bugStatus"}

Replacements ==
  [bugPriority |-> {FALLBACK_LISTS.bugPriority, << [text |-> "NEW PRIORITY", order |-> 1] >>},
   bugStatus |-> {FALLBACK_LISTS.bugStatus, << [text |-> "NewStatus", order |-> 1] >>}]

NextLists ==
  \/ \E listType \in CachedTypes : GetListTexts(listType)
  \/ \E listType \in CachedTypes : IsValidValue(listType, "Closed")
  \/ \E listType \in {Undefined} \cup {Some(t) : t \in CachedTypes} : InvalidateCache(listType)
  \/ \E listType \in CachedTypes : \E data \in Replacements[listType] : SetList(listType, data)
  \/ Tick

SpecLists == InitWith({"1-5"}) /\ [][NextLists]_vars

(***************************************************************************)
(* SpecValidator: tasks created with and without a validator and a         *)
(* developer, over projects whose stakeholders are active or not, on the   *)
(* project or not, two of them with the e-mail address of a developer.     *)
(***************************************************************************)
StakeholderIds == {"stk_1", "stk_2", "stk_3"}

Stakeholders(active) ==
  << [id |-> "stk_1", name |-> "Ana", email |-> "ana@x.com", active |-> active["stk_1"]],
     [id |-> "stk_2", name |-> "Manu Fosela", email |-> "manu@x.com", active |-> active["stk_2"]],
     [id |-> "stk_3", name |-> "Ana Other", email |-> "ana@x.com", active |-> active["stk_3"]] >>

ValidatorProjects ==
  {[MockRtdb EXCEPT !.stakeholders = Stakeholders(active), !.projectStakeholders = ids] :
     active \in [StakeholderIds -> BOOLEAN], ids \in SUBSET StakeholderIds}

ValidatorCreates ==
  {[TaskArgs EXCEPT !.validator = validator, !.developer = developer] :
     validator \in {Undefined, Some(""), Some("stk_2")},
     developer \in {Undefined, Some("dev_1"), Some("dev_2"), Some("dev_016")}}

InitValidator == Loaded({"1-5"}, ValidatorProjects)

NextValidator == \E in \in ValidatorCreates : CreateCard("k1", "task", in)

SpecValidator == InitValidator /\ [][NextValidator]_vars

(***************************************************************************)
(* SpecSprints: getActiveSprint over projects with no sprint, one or two,  *)
(* of any status, running before, over, up to, from or after today, or     *)
(* with no start date.                                                     *)
(***************************************************************************)
SprintStatuses == {"Active", "In Progress", "Planning"}

SprintDates ==
  {<<"2024-05-01", "2024-07-01">>, <<"2024-06-01", "2024-06-01">>,
   <<"2024-05-01", "2024-06-01">>, <<"2024-06-01", "2024-07-01">>,
   <<"2024-05-01", "2024-05-01">>, <<"2024-07-01", "2024-07-01">>, <<"", "2024-07-01">>}

Sprint(cardId, status, dates) ==
  [cardId |-> cardId, status |-> status, startDate |-> dates[1], endDate |-> dates[2]]

SprintLists ==
  {<<>>}
  \cup {<<Sprint("PLN-SPR-0001", st, d)>> : st \in SprintStatuses, d \in SprintDates}
  \cup {<<Sprint("PLN-SPR-0001", st1, d1), Sprint("PLN-SPR-0002", st2, d2)>> :
          st1 \in SprintStatuses, d1 \in SprintDates,
          st2 \in SprintStatuses, d2 \in SprintDates}

InitSprints == Loaded({"1-5"}, {[MockRtdb EXCEPT !.sprints = l] : l \in SprintLists})

GetActiveSprint ==
  /\ reply' = [op |-> "getActiveSprint", args |-> <<>>, ok |-> TRUE, error |-> "",
                value |-> getActiveSprint, loaded |-> {}]
  /\ UNCHANGED <<cards, counters, scoringSystem, PRIORITY_MAPS, last, rtdb, now, cache, pending>>

NextSprints == GetActiveSprint

SpecSprints == InitSprints /\ [][NextSprints]_vars

(***************************************************************************)
(* createCard step by step, for calls that overlap.  A call runs its       *)
(* checks, then the counter transaction (a read of the counter document    *)
(* and a write of lastId + 1), then newCardRef.set.  Firestore commits a   *)
(* transaction only if the documents it read are as it read them, and runs *)
(* the callback again otherwise.                                           *)
(***************************************************************************)
Procs == {"p1", "p2"}

Keys == {"k1", "k2", "k3"}

Without(f, x) == [y \in DOMAIN f \ {x} |-> f[y]]

\* createCard up to the transaction: the error thrown, or the call goes on.
BeginCreate(p, key, type, in) ==
  /\ p \notin DOMAIN pending
  /\ key \notin DOMAIN cards
  /\ \A q \in DOMAIN pending : pending[q].key # key
  /\ \E r \in {createCard(in, type, key, 0, scoringSystem)} :
       IF r.err.ok
       THEN /\ pending' = (p :> [key |-> key, type |-> type, in |-> in, pc |-> "get",
                                  lastId |-> 0]) @@ pending
            /\ cache' = cacheAfterGetList(listsOfCreateCard(in, type))
            /\ UNCHANGED <<cards, counters, scoringSystem, PRIORITY_MAPS, last, rtdb, now, reply>>
       ELSE CreateOutcome(key, type, in, r)

\* const docSnap = await transaction.get(counterRef)
TransactionGet(p) ==
  /\ p \in DOMAIN pending
  /\ pending[p].pc = "get"
  /\ pending' = [pending EXCEPT ![p].lastId = counters[pending[p].type], ![p].pc = "set"]
  /\ UNCHANGED <<cards, counters, scoringSystem, PRIORITY_MAPS, last, rtdb, now, cache, reply>>

\* The transaction writing lastId + 1 over whatever the counter holds by then.
TransactionCommit_NoIsolation(p) ==
  /\ p \in DOMAIN pending
  /\ pending[p].pc = "set"
  /\ counters' = [counters EXCEPT ![pending[p].type] = pending[p].lastId + 1]
  /\ pending' = [pending EXCEPT ![p].pc = "write"]
  /\ UNCHANGED <<cards, scoringSystem, PRIORITY_MAPS, last, rtdb, now, cache, reply>>

\* transaction.set(counterRef, { lastId: newId }) committed, or the callback run again.
TransactionCommit(p) ==
  /\ p \in DOMAIN pending
  /\ pending[p].pc = "set"
  /\ IF counters[pending[p].type] = pending[p].lastId
     THEN /\ counters' = [counters EXCEPT ![pending[p].type] = pending[p].lastId + 1]
          /\ pending' = [pending EXCEPT ![p].pc = "write"]
     ELSE /\ pending' = [pending EXCEPT ![p].pc = "get"]
          /\ UNCHANGED counters
  /\ UNCHANGED <<cards, scoringSystem, PRIORITY_MAPS, last, rtdb, now, cache, reply>>

\* await newCardRef.set(cardData), and the call returns.
WriteCard(p) ==
  /\ p \in DOMAIN pending
  /\ pending[p].pc = "write"
  /\ \E r \in {createCard(pending[p].in, pending[p].type, pending[p].key, pending[p].lastId,
                            scoringSystem)} :
       /\ cards' = (pending[p].key :> r.card) @@ cards
       /\ last' = [op |-> "create", type |-> pending[p].type, key |-> pending[p].key,
                    args |-> pending[p].in, before |-> NoFields, err |-> r.err,
                    report |-> NoReport]
  /\ pending' = Without(pending, p)
  /\ UNCHANGED <<counters, scoringSystem, PRIORITY_MAPS, rtdb, now, cache, reply>>

(***************************************************************************)
(* SpecCounter: two callers creating tasks and bugs, some of them          *)
(* rejected, until the keys are used up.                                   *)
(***************************************************************************)
NextCounter ==
  \E p \in Procs :
    \/ \E key \in Keys :
         \/ \E in \in {TaskArgs, [TaskArgs EXCEPT !.epic = Undefined]} :
              BeginCreate(p, key, "task", in)
         \/ BeginCreate(p, key, "bug", BugArgs)
    \/ TransactionGet(p)
    \/ TransactionCommit(p)
    \/ WriteCard(p)

SpecCounter == InitWith({"1-5"}) /\ [][NextCounter]_vars

(***************************************************************************)
(* SpecCalc: direct calls of calculatePriority with points on and off the  *)
(* two scales, zero, negative or missing.                                  *)
(***************************************************************************)
CalcPoints == {Undefined} \cup {Some(n) : n \in {-1, 0, 1, 2, 3, 4, 5, 8, 13, 21}}

CalculatePriority(businessPoints, devPoints, scoring) ==
  /\ reply' = [op |-> "calculatePriority", args |-> <<businessPoints, devPoints, scoring>>,
                ok |-> TRUE, error |-> "",
                value |-> calculatePriority(businessPoints, devPoints, scoring), loaded |-> {}]
  /\ UNCHANGED <<cards, counters, scoringSystem, PRIORITY_MAPS, last, rtdb, now, cache, pending>>

NextCalc ==
  \E businessPoints \in CalcPoints, devPoints \in CalcPoints, scoring \in {"1-5", "fibonacci"} :
    CalculatePriority(businessPoints, devPoints, scoring)

SpecCalc == InitWith({"1-5"}) /\ [][NextCalc]_vars

(***************************************************************************)
(* SpecFallback: lookups of the bug priorities over a database that starts *)
(* without the list or out of reach; the list is stored or removed and the *)
(* connection comes and goes while the clock runs.                         *)
(***************************************************************************)
StoredPriorities == {<<>>, << [text |-> "NEW PRIORITY", order |-> 1] >>}

InitFallback ==
  Loaded({"1-5"}, {[MockRtdb EXCEPT !.lists.bugPriority = <<>>],
                   [MockRtdb EXCEPT !.lists.bugPriority = <<>>, !.online = FALSE]})

NextFallback ==
  \/ GetListTexts("bugPriority")
  \/ IsValidValue("bugPriority", "NEW PRIORITY")
  \/ InvalidateCache(Some("bugPriority"))
  \/ \E data \in StoredPriorities : SetList("bugPriority", data)
  \/ \E online \in BOOLEAN : SetOnline(online)
  \/ Tick

SpecFallback == InitFallback /\ [][NextFallback]_vars

(***************************************************************************)
(* SpecRace: lookups in flight.  getList awaits loadListFromFirebase, which *)
(* awaits the read of the database: between the cache miss, the read and   *)
(* the write of the cache entry other calls run.  pending[p] is the load   *)
(* of caller p; pending[listType] is the load that filled the cache entry  *)
(* of the list type, kept with the entry.  invalidated tells that          *)
(* invalidateCache ran for the list type after the load had read the       *)
(* database.                                                               *)
(***************************************************************************)
\* getListTexts(listType): answered from the cache, or the load starts.
BeginGetListTexts(p, listType) ==
  /\ p \notin DOMAIN pending
  /\ IF cached(listType)
     THEN GetListTexts(listType)
     ELSE /\ pending' = (p :> [pc |-> "read", listType |-> listType, data |-> <<>>,
                                invalidated |-> FALSE]) @@ pending
          /\ UNCHANGED <<cards, counters, scoringSystem, PRIORITY_MAPS, last, rtdb, now, cache,
                         reply>>

\* const snapshot = await db.ref(path).once('value'), and the fallback if need be.
ReadList(p) ==
  /\ p \in DOMAIN pending
  /\ pending[p].pc = "read"
  /\ pending' = [pending EXCEPT ![p].data = loadListFromFirebase(pending[p].listType),
                                ![p].pc = "store"]
  /\ UNCHANGED <<cards, counters, scoringSystem, PRIORITY_MAPS, last, rtdb, now, cache, reply>>

\* cache[listType] = { data, loadedAt: Date.now() }, and the texts are returned.
StoreList(p) ==
  /\ p \in DOMAIN pending
  /\ pending[p].pc = "store"
  /\ \E listType \in {pending[p].listType}, data \in {pending[p].data} :
       /\ cache' = [cache EXCEPT ![listType] = Some([data |-> data, loadedAt |-> now])]
       /\ reply' = [op |-> "getListTexts", args |-> <<listType>>, ok |-> TRUE, error |-> "",
                     value |-> [i \in 1..Len(sortByOrder(data, 1, <<>>)) |->
                                  sortByOrder(data, 1, <<>>)[i].text],
                     loaded |-> {listType}]
       /\ pending' = (listType :> [pending[p] EXCEPT !.pc = "stored"]) @@ Without(pending, p)
  /\ UNCHANGED <<cards, counters, scoringSystem, PRIORITY_MAPS, last, rtdb, now>>

\* invalidateCache(listType) while loads are in flight: the entry goes, the
\* loads go on with what they have read.
InvalidateCacheMeanwhile(listType) ==
  /\ cache' = invalidateCache(Some(listType))
  /\ reply' = [op |-> "invalidateCache", args |-> <<Some(listType)>>, ok |-> TRUE, error |-> "",
                value |-> <<>>, loaded |-> {}]
  /\ pending' =
       [q \in DOMAIN pending \ {listType} |->
          IF pending[q].listType = listType /\ pending[q].pc = "store"
          THEN [pending[q] EXCEPT !.invalidated = TRUE] ELSE pending[q]]
  /\ UNCHANGED <<cards, counters, scoringSystem, PRIORITY_MAPS, last, rtdb, now>>

NextRace ==
  \/ \E p \in Procs : BeginGetListTexts(p, "bugPriority")
  \/ \E p \in Procs : ReadList(p)
  \/ \E p \in Procs : StoreList(p)
  \/ InvalidateCacheMeanwhile("bugPriority")
  \/ \E data \in Replacements.bugPriority : SetList("bugPriority", data)
  \/ Tick

SpecRace == InitWith({"1-5"}) /\ [][NextRace]_vars

(***************************************************************************)
(* SpecUpdateRace: updateCard in flight.  The card is read first           *)
(* (cardRef.once), the lists and the sprints are awaited, and              *)
(* cardRef.update(updates) comes last: between the read and the write      *)
(* other calls run.  Each caller makes one call; pending[p] keeps the card *)
(* it read and, when it is done, the card it returned.                     *)
(***************************************************************************)
\* const snapshot = await cardRef.once('value'); currentCard = snapshot.val()
BeginUpdate(p, key, updates) ==
  /\ p \notin DOMAIN pending
  /\ key \in DOMAIN cards
  /\ pending' = (p :> [pc |-> "update", key |-> key, updates |-> updates,
                        currentCard |-> cards[key], err |-> Ok, returned |-> NoFields])
                 @@ pending
  /\ UNCHANGED <<cards, counters, scoringSystem, PRIORITY_MAPS, last, rtdb, now, cache, reply>>

\* FinishUpdate working on the card as it is stored by now, as if the read
\* and the write were one transaction.
FinishUpdate_Serialised(p) ==
  /\ p \in DOMAIN pending
  /\ pending[p].pc = "update"
  /\ \E key \in {pending[p].key}, updates \in {pending[p].updates} :
       \E r \in {updateCard(cards[key], updates, typeOf(cards[key]), scoringSystem)} :
         /\ last' = [op |-> "update", type |-> typeOf(cards[key]), key |-> key,
                     args |-> updates, before |-> cards[key], err |-> r.err,
                     report |-> NoReport]
         /\ IF r.err.ok
            THEN cards' = [cards EXCEPT ![key] = Merge(cards[key], r.updates)]
            ELSE UNCHANGED cards
         /\ cache' = cacheAfterGetList(listsOfUpdateCard(updates, typeOf(cards[key])))
         /\ pending' = [pending EXCEPT ![p].pc = "done", ![p].err = r.err,
                                       ![p].returned = cards'[key]]
         /\ UNCHANGED <<counters, scoringSystem, PRIORITY_MAPS, rtdb, now, reply>>

\* The checks and the blocks of updateCard on the card that was read, then
\* cardRef.update(updates) on the card as it is stored by now, and the card
\* read again for the response.
FinishUpdate(p) ==
  /\ p \in DOMAIN pending
  /\ pending[p].pc = "update"
  /\ \E key \in {pending[p].key}, updates \in {pending[p].updates},
        currentCard \in {pending[p].currentCard} :
       \E r \in {updateCard(currentCard, updates, typeOf(currentCard), scoringSystem)} :
         /\ last' = [op |-> "update", type |-> typeOf(currentCard), key |-> key,
                     args |-> updates, before |-> currentCard, err |-> r.err,
                     report |-> NoReport]
         /\ IF r.err.ok
            THEN cards' = [cards EXCEPT ![key] = Merge(cards[key], r.updates)]
            ELSE UNCHANGED cards
         /\ cache' = cacheAfterGetList(listsOfUpdateCard(updates, typeOf(currentCard)))
         /\ pending' = [pending EXCEPT ![p].pc = "done", ![p].err = r.err,
                                       ![p].returned = cards'[key]]
         /\ UNCHANGED <<counters, scoringSystem, PRIORITY_MAPS, rtdb, now, reply>>

RaceUpdateArgs == {Single("commits", <<commit(h)>>) : h \in {"h1", "h2", "h3"}}

NextUpdateRace ==
  \/ CreateCard("k1", "task", FullTaskArgs)
  \/ CreateCard("k2", "bug", BugArgs)
  \/ \E p \in Procs, key \in {"k1", "k2"}, updates \in RaceUpdateArgs :
       BeginUpdate(p, key, updates)
  \/ \E p \in Procs : FinishUpdate(p)

SpecUpdateRace == Init /\ [][NextUpdateRace]_vars

(***************************************************************************)
(* SpecTransitions: getCard reports the available transitions of tasks     *)
(* that are created in any status and moved between statuses.              *)
(***************************************************************************)
\* getCard({projectId, cardId}) of a task: the card and its availableTransitions.
GetCard(key) ==
  /\ key \in DOMAIN cards
  /\ typeOf(cards[key]) = "task"
  /\ reply' = [op |-> "getCard", args |-> <<key>>, ok |-> TRUE, error |-> "",
                value |-> [card |-> cards[key],
                           availableTransitions |-> calculateAvailableTransitions(cards[key])],
                loaded |-> {}]
  /\ UNCHANGED <<cards, counters, scoringSystem, PRIORITY_MAPS, last, rtdb, now, cache, pending>>

TransitionsCreates ==
  {TaskArgs, FullTaskArgs, [FullTaskArgs EXCEPT !.status = Some("To Validate")]}

TransitionsUpdateArgs ==
  StatusUpdates({"In Progress", "To Validate", "Blocked", "Reopened"}) \cup
  {GateFields, Single("commits", <<>>), Single("bbdWhy", "  ")}

NextTransitions ==
  \/ \E in \in TransitionsCreates : CreateCard("k1", "task", in)
  \/ \E updates \in TransitionsUpdateArgs : UpdateCard("k1", updates)
  \/ GetCard("k1")

SpecTransitions == Init /\ [][NextTransitions]_vars

(***************************************************************************)
(* SpecRelations: two tasks and a bug are created and related to each      *)
(* other, one call of relateCards after the other.                         *)
(***************************************************************************)
CardId(type, seq) == [counterKey |-> <<ProjectAbbreviation, SECTION_ABBR[type]>>, seq |-> seq]

\* findCardByCardId: the keys of the cards with the card id (one, or none).
findCardByCardId(cardId) == {key \in DOMAIN cards : cards[key].cardId = Some(cardId)}

RelateReply(args, error, value) ==
  [op |-> "relateCards", args |-> args, ok |-> error = "", error |-> error, value |-> value,
   loaded |-> {}]

\* relateCards({projectId, sourceCardId, targetCardId, relationType, action}):
\* both cards are read, then both relatedTasks arrays are written.
RelateCards(sourceCardId, targetCardId, relationType, action) ==
  LET args == <<sourceCardId, targetCardId, relationType, action>>
  IN  /\ IF sourceCardId = targetCardId
         THEN reply' = RelateReply(args, "SELF_RELATION", <<>>) /\ UNCHANGED cards
         ELSE IF findCardByCardId(sourceCardId) = {}
         THEN reply' = RelateReply(args, "SOURCE_NOT_FOUND", <<>>) /\ UNCHANGED cards
         ELSE IF findCardByCardId(targetCardId) = {}
         THEN reply' = RelateReply(args, "TARGET_NOT_FOUND", <<>>) /\ UNCHANGED cards
         ELSE \E source \in findCardByCardId(sourceCardId),
                 target \in findCardByCardId(targetCardId) :
                \E sourceUpdatedRelations \in
                     {updateRelatedTasks(cards[source].relatedTasks, targetCardId, ProjectId,
                                         cards[target].title, relationType, action)},
                   targetUpdatedRelations \in
                     {updateRelatedTasks(cards[target].relatedTasks, sourceCardId, ProjectId,
                                         cards[source].title, targetRelationType(relationType),
                                         action)} :
                  /\ cards' = [cards EXCEPT ![source].relatedTasks = Some(sourceUpdatedRelations),
                                            ![target].relatedTasks = Some(targetUpdatedRelations)]
                  /\ reply' = RelateReply(args, "",
                                 [sourceCard |-> sourceUpdatedRelations,
                                  targetCard |-> targetUpdatedRelations])
      /\ UNCHANGED <<counters, scoringSystem, PRIORITY_MAPS, last, rtdb, now, cache, pending>>

RelatedIds == {CardId("task", 1), CardId("task", 2), CardId("bug", 1)}

\* The calls made: every relation between the first task and the bug, and
\* between the two tasks "related" only.
RelateArgs ==
  {<<a, b, t>> \in RelatedIds \X RelatedIds \X {"related", "blocks"} :
     \/ {a, b} \subseteq {CardId("task", 1), CardId("bug", 1)}
     \/ {a, b} = {CardId("task", 1), CardId("task", 2)} /\ t = "related"}

NextRelations ==
  \/ \E key \in {"k1", "k2"} : CreateCard(key, "task", TaskArgs)
  \/ CreateCard("k3", "bug", BugArgs)
  \/ \E r \in RelateArgs, action \in {"add", "remove"} : RelateCards(r[1], r[2], r[3], action)

SpecRelations == Init /\ [][NextRelations]_vars

(***************************************************************************)
(* Properties.  last is the call that led to the state: last.before is the *)
(* card it found, cards[last.key] the card it left.                        *)
(***************************************************************************)
TaskUpdated == last.op = "update" /\ last.type = "task"
BugUpdated == last.op = "update" /\ last.type = "bug"
TaskCreated == last.op = "create" /\ last.type = "task"

\* The update of last proposes this status (in any letter case) and the card
\* is in another.
ChangesStatusTo(status) ==
  /\ IsDefined(last.args.status)
  /\ toLowerCase(ValueOf(last.args.status)) = toLowerCase(status)
  /\ last.before.status # Some(status)

\* C1: an update of a task that sets the status to "Done&Validated" from any
\* other status is rejected, the card stays as it was, and, unless the update
\* also names a protected field (which is reported first), the error names
\* "To Validate" as the status to use.
C1_DoneValidatedRejected ==
  (TaskUpdated /\ ChangesStatusTo("Done&Validated"))
    => /\ ~last.err.ok
       /\ cards[last.key] = last.before
       /\ (~IsDefined(last.args.cardId)
             => last.err.code = "VALIDATOR_ONLY_STATUS" /\ last.err.use = "To Validate")

C1_Witness ==
  /\ TaskUpdated
  /\ last.args.status = Some("Done&Validated")
  /\ last.before.status = Some("To Validate")
  /\ ~last.err.ok
  /\ last.err.use = "To Validate"
  /\ cards[last.key] = last.before

\* C3: an accepted update of a task changes the status from S to T only if
\* T is among the allowed transitions of S in TASK_TRANSITION_RULES.
C3_OnlyAllowedTransitions ==
  (TaskUpdated /\ last.err.ok /\ cards[last.key].status # last.before.status)
    => ValueOf(cards[last.key].status) \in TASK_TRANSITION_RULES[ValueOf(last.before.status)]

\* C4: no stored task has the status "Done&Validated".
C4_NeverDoneValidated ==
  \A key \in DOMAIN cards :
    typeOf(cards[key]) = "task" => cards[key].status # Some("Done&Validated")

\* The record an update is checked against: the stored card overlaid with it.
MergedRecord == Merge(last.before, last.args)

\* A field of a record has no value: absent, a blank string, a number that is
\* not positive; for the acceptance criteria, no text and no scenario either.
FieldMissing(record, field) ==
  CASE field \in {"devPoints", "businessPoints"} ->
         ~IsDefined(record[field]) \/ ValueOf(record[field]) <= 0
    [] field = "acceptanceCriteria" ->
         /\ ~IsDefined(record[field]) \/ Trim(ValueOf(record[field])) = ""
         /\ ~IsDefined(record.acceptanceCriteriaStructured)
    [] OTHER -> ~IsDefined(record[field]) \/ Trim(ValueOf(record[field])) = ""

BaseRequiredFields ==
  {"developer", "validator", "epic", "sprint", "devPoints", "businessPoints",
   "acceptanceCriteria"}

FieldLabel(field) ==
  CASE field = "developer" -> "Developer" [] field = "validator" -> "Validator"
    [] field = "epic" -> "Epic" [] field = "sprint" -> "Sprint"
    [] field = "devPoints" -> "Dev Points" [] field = "businessPoints" -> "Business Points"
    [] field = "acceptanceCriteria" -> "Acceptance Criteria" [] field = "title" -> "Title"

LeavesToDo ==
  /\ TaskUpdated
  /\ last.before.status = Some("To Do")
  /\ IsDefined(last.args.status)
  /\ last.args.status # Some("To Do")

C5_ToValidateNeedsStartDateAndCommits ==
  (TaskUpdated /\ ChangesStatusTo("To Validate"))
    => IF last.err.ok
       THEN /\ ~FieldMissing(MergedRecord, "startDate")
            /\ IsDefined(MergedRecord.commits)
            /\ Len(ValueOf(MergedRecord.commits)) >= 1
            /\ \A f \in BaseRequiredFields : ~FieldMissing(MergedRecord, f)
       ELSE cards[last.key] = last.before

C5_Witness ==
  /\ TaskUpdated
  /\ ChangesStatusTo("To Validate")
  /\ last.err.ok
  /\ IsDefined(last.args.commits)
  /\ ~IsDefined(last.before.commits)
  /\ cards[last.key].status = Some("To Validate")

\* C6: an update that changes a task's status to "Blocked" is accepted only
\* if the merged record has blockedByBusiness or blockedByDevelopment true
\* and, for each of the two that is true, its reason and its owner.
C6_BlockedNeedsBlocker ==
  (TaskUpdated /\ ChangesStatusTo("Blocked") /\ last.err.ok)
    => /\ \/ MergedRecord.blockedByBusiness = Some(TRUE)
          \/ MergedRecord.blockedByDevelopment = Some(TRUE)
       /\ MergedRecord.blockedByBusiness = Some(TRUE)
            => ~FieldMissing(MergedRecord, "bbbWhy") /\ ~FieldMissing(MergedRecord, "bbbWho")
       /\ MergedRecord.blockedByDevelopment = Some(TRUE)
            => ~FieldMissing(MergedRecord, "bbdWhy") /\ ~FieldMissing(MergedRecord, "bbdWho")

C6_Witness ==
  /\ TaskUpdated
  /\ ChangesStatusTo("Blocked")
  /\ last.err.ok
  /\ MergedRecord.blockedByBusiness = Some(TRUE)
  /\ MergedRecord.blockedByDevelopment = Some(TRUE)
  /\ cards[last.key].status = Some("Blocked")

\* What the closing gate asks for and the merged record lacks.
MissingToClose ==
  {f \in {"rootCause", "resolution"} : FieldMissing(MergedRecord, f)}
  \cup (IF IsDefined(MergedRecord.commits) /\ Len(ValueOf(MergedRecord.commits)) >= 1
        THEN {} ELSE {"commits"})

\* C7: an update that changes a bug's status to "Closed" is accepted exactly
\* when the merged record has commits, a root cause and a resolution; when
\* it is rejected the error names exactly the missing ones and the bug
\* stays as it was.
C7_ClosingGate ==
  (BugUpdated /\ ChangesStatusTo("Closed"))
    => /\ last.err.ok <=> MissingToClose = {}
       /\ ~last.err.ok => /\ last.err.code = "CANNOT_CLOSE_BUG"
                          /\ Range(last.err.fields) = MissingToClose
                          /\ cards[last.key] = last.before

\* Closed with the commits of the stored bug, the root cause of the update.
C7_Witness ==
  /\ BugUpdated
  /\ ChangesStatusTo("Closed")
  /\ last.err.ok
  /\ ~IsDefined(last.args.commits)
  /\ IsDefined(last.args.resolution)
  /\ cards[last.key].status = Some("Closed")

\* C8: a createCard or an updateCard of a task that supplies a priority is
\* rejected and changes neither the cards nor the counters, whatever else it
\* supplies.
C8_DirectPriorityRejected ==
  [][(last'.type = "task" /\ last'.op \in {"create", "update"} /\ IsDefined(last'.args.priority))
       => (~last'.err.ok /\ UNCHANGED <<cards, counters>>)]_vars

\* A valid priority next to valid points, on a stored task.
C8_Witness ==
  /\ TaskUpdated
  /\ last.args.priority = Some(Label("High"))
  /\ last.args.devPoints = Some(2)
  /\ last.err.code = "DIRECT_PRIORITY"
  /\ cards[last.key] = last.before

\* The scoring system the engine reads: '1-5' unless the project sets one.
ProjectScoringSystem == IF scoringSystem = "" THEN "1-5" ELSE scoringSystem

BothPoints(card) ==
  /\ IsDefined(card.devPoints) /\ ValueOf(card.devPoints) # 0
  /\ IsDefined(card.businessPoints) /\ ValueOf(card.businessPoints) # 0

\* C9: every stored task with both points non-zero has the priority that
\* calculatePriority gives for its points under the project's scoring system.
C9_PriorityFollowsPoints ==
  \A key \in DOMAIN cards :
    (typeOf(cards[key]) = "task" /\ BothPoints(cards[key]))
      => /\ IsDefined(calculatePriority(cards[key].businessPoints, cards[key].devPoints,
                                        ProjectScoringSystem))
         /\ cards[key].priority =
              Some(Rank(ValueOf(calculatePriority(cards[key].businessPoints,
                                                  cards[key].devPoints, ProjectScoringSystem))))

\* One point changed by an update, the other kept, and the priority moved.
C9_Witness ==
  /\ TaskUpdated
  /\ last.err.ok
  /\ scoringSystem = "fibonacci"
  /\ IsDefined(last.args.businessPoints)
  /\ ~IsDefined(last.args.devPoints)
  /\ BothPoints(last.before)
  /\ BothPoints(cards[last.key])
  /\ cards[last.key].priority # last.before.priority

\* C10: a stored task with devPoints or businessPoints missing or zero has
\* no priority.
C10_NoPriorityWithoutPoints ==
  \A key \in DOMAIN cards :
    (typeOf(cards[key]) = "task" /\ ~BothPoints(cards[key]))
      => ~IsDefined(cards[key].priority)

commitsOf(card) == IF IsDefined(card.commits) THEN ValueOf(card.commits) ELSE <<>>

IsPrefix(a, b) == Len(a) <= Len(b) /\ SubSeq(b, 1, Len(a)) = a

Updated == last.op = "update" /\ last.err.ok

\* C11: after an accepted update of a task or a bug the stored commit list
\* starts with the commits stored before it, in the same order.
C11_CommitsOnlyGrow ==
  Updated => IsPrefix(commitsOf(last.before), commitsOf(cards[last.key]))

\* An accepted update that supplies only commits with hashes not yet stored,
\* on a card that has commits: they come after the stored ones.
C11_Witness ==
  /\ Updated
  /\ Len(commitsOf(last.before)) > 0
  /\ last.args.commits = Some(<<commit("h3")>>)
  /\ \A i \in 1..Len(commitsOf(last.before)) : commitsOf(last.before)[i].hash # "h3"
  /\ commitsOf(cards[last.key]) = commitsOf(last.before) \o <<commit("h3")>>

\* C12: no stored commit list holds the same hash twice.
C12_NoDuplicateHashes ==
  \A key \in DOMAIN cards :
    \A i, j \in 1..Len(commitsOf(cards[key])) :
      commitsOf(cards[key])[i].hash = commitsOf(cards[key])[j].hash => i = j

NamesProtectedField(updates) == \E i \in 1..Len(protectedFields) : IsDefined(updates[protectedFields[i]])

IdentityFields == {"cardId", "cardType", "firebaseId", "group", "projectId"}

\* C13: an updateCard call, in apply mode or with validateOnly, leaves the
\* card's cardId, cardType, firebaseId, group and projectId as they were, and
\* an apply-mode update that names one of them is rejected with the card
\* unchanged.
C13_IdentityNeverChanges ==
  last.op \in {"update", "validate"} =>
    /\ \A f \in IdentityFields : cards[last.key][f] = last.before[f]
    /\ (last.op = "update" /\ \E f \in IdentityFields : IsDefined(last.args[f]))
         => ~last.err.ok /\ cards[last.key] = last.before

\* An apply-mode update naming another cardType was rejected.
C13_Witness ==
  /\ last.op = "update"
  /\ last.args.cardType = Some("bug-card")
  /\ last.before.cardType = Some("task-card")
  /\ last.err.code = "PROTECTED_FIELD"
  /\ cards[last.key].cardType = Some("task-card")

\* C14: a createCard or an apply-mode updateCard that fails a check has
\* written nothing: neither a card nor the ID counter changes in that step.
C14_NoWriteBeforeChecksPass ==
  [][(last'.op \in {"create", "update"} /\ ~last'.err.ok) => UNCHANGED <<cards, counters>>]_vars

\* A createCard failed in a section whose counter had already handed out ids.
C14_Witness ==
  /\ last.op = "create"
  /\ ~last.err.ok
  /\ counters[last.type] > 0
  /\ last.key \notin DOMAIN cards

\* C15: a validateOnly call leaves every stored card and the counters as they
\* were, whether it reports violations or not.
C15_ValidateOnlyNeverWrites ==
  [][last'.op = "validate" => UNCHANGED <<cards, counters>>]_vars

\* A validateOnly call that found nothing wrong with an update apply mode
\* would write: the card is as before.
C15_Witness ==
  /\ last.op = "validate"
  /\ last.report.valid
  /\ last.args.commits = Some(<<commit("h1")>>)
  /\ cards[last.key] = last.before
  /\ ~IsDefined(cards[last.key].commits)

\* C16: validateOnly reports valid exactly when apply mode accepts the same
\* update of the same card.
C16_ModesAgree ==
  last.op = "validate" =>
    (last.report.valid <=>
       updateCard(last.before, last.args, last.type, scoringSystem).err.ok)

\* The place of an error in the order protected field, vocabulary, status
\* transition, sub-document shape, entity reference; 0 for the other errors.
categoryOf(code) ==
  CASE code = "PROTECTED_FIELD" -> 1
    [] code \in {"INVALID_STATUS", "INVALID_PRIORITY"} -> 2
    [] code \in {"VALIDATOR_ONLY_STATUS", "MISSING_TO_LEAVE_TODO", "BLOCKED_WITHOUT_BLOCKER",
                 "BLOCKED_MISSING_FIELDS", "MISSING_FOR_TO_VALIDATE", "CANNOT_CLOSE_BUG"} -> 3
    [] code \in {"INVALID_COMMITS", "INVALID_IMPLEMENTATION_PLAN"} -> 4
    [] code = "INVALID_ENTITY_ID" -> 5
    [] OTHER -> 0

Vocabulary(updates, type) ==
  IF type = "bug" THEN validateBugFields(updates) ELSE validateTaskFields(updates)

\* The update of last breaks a rule of this category.
Violates(category) ==
  CASE category = 1 -> NamesProtectedField(last.args)
    [] category = 2 -> ~Vocabulary(last.args, last.type).err.ok
    [] category = 3 ->
         /\ Vocabulary(last.args, last.type).err.ok
         /\ IF last.type = "bug"
            THEN ~validateBugStatusTransition(last.before, Vocabulary(last.args, last.type).data).ok
            ELSE ~validateStatusTransition(last.before, Vocabulary(last.args, last.type).data,
                                           last.type).ok
    [] category = 4 ->
         \/ IsDefined(last.args.commits) /\ ~validateCommitsField(ValueOf(last.args.commits)).ok
         \/ /\ last.type = "task"
            /\ IsDefined(migrateImplementationPlan(last.args.implementationPlan))
            /\ ~validateImplementationPlan(
                  ValueOf(migrateImplementationPlan(last.args.implementationPlan))).ok
    [] category = 5 -> ~validateEntityIds(last.args).ok

\* C17: a rejected apply-mode update fails with an error of the first
\* category it violates, in the order protected field, vocabulary, status
\* transition, sub-document shape, entity reference.
C17_FixedOrder ==
  (last.op = "update" /\ ~last.err.ok /\ categoryOf(last.err.code) > 0) =>
    \A category \in 1..(categoryOf(last.err.code) - 1) : ~Violates(category)

\* The update of last takes a "To Do" task that lacks nothing but the sprint
\* to "In Progress", and brings no sprint either.
LeavesToDoWithoutSprint ==
  /\ TaskUpdated
  /\ last.before.status = Some("To Do")
  /\ last.args.status = Some("In Progress")
  /\ ~truthy(last.before, "sprint")
  /\ ~truthy(last.args, "sprint")
  /\ missingToLeaveToDo(Merge(last.before, last.args)) = <<"sprint">>

\* C18: with an active sprint in the project, an update of a "To Do" task to
\* "In Progress" where neither the card nor the update has a sprint is
\* accepted, and the card gets the active sprint and today as start date.
C18_ActiveSprintAssigned ==
  (LeavesToDoWithoutSprint /\ IsDefined(getActiveSprint)) =>
    /\ last.err.ok
    /\ cards[last.key].sprint = Some(ValueOf(getActiveSprint).cardId)
    /\ (~truthy(last.before, "startDate") /\ ~truthy(last.args, "startDate"))
         => cards[last.key].startDate = Some(Today)

\* C19: an accepted update of a task to "In Progress" stores today as the
\* start date when neither the card nor the update has one, and leaves the
\* stored start date alone when the update supplies none.
C19_StartDateSetOnce ==
  (TaskUpdated /\ last.err.ok /\ IsDefined(last.args.status)
     /\ cards[last.key].status = Some("In Progress")) =>
    /\ (~truthy(last.before, "startDate") /\ ~truthy(last.args, "startDate"))
         => cards[last.key].startDate = Some(Today)
    /\ (truthy(last.before, "startDate") /\ ~IsDefined(last.args.startDate))
         => cards[last.key].startDate = last.before.startDate

\* A task with a start date other than today went to "In Progress" and kept it.
C19_Witness ==
  /\ TaskUpdated
  /\ last.err.ok
  /\ last.args.status = Some("In Progress")
  /\ ~IsDefined(last.args.startDate)
  /\ last.before.startDate = Some("2024-05-01")
  /\ cards[last.key].startDate = Some("2024-05-01")
  /\ Today # "2024-05-01"

\* The planStatus of a card's plan: "" when the card has no plan or the plan
\* has no planStatus.
planStatusOf(card) ==
  IF IsDefined(card.implementationPlan) THEN ValueOf(card.implementationPlan).planStatus ELSE ""

\* pending, proposed, validated, in_progress, completed in this order.
stageOf(planStatus) ==
  CASE planStatus = "pending" -> 1
    [] planStatus = "proposed" -> 2
    [] planStatus = "validated" -> 3
    [] planStatus = "in_progress" -> 4
    [] planStatus = "completed" -> 5
    [] OTHER -> 0

\* C20: an accepted update of a task that supplies no implementationPlan
\* changes planStatus only from validated to in_progress when it sets
\* "In Progress" and to completed when it sets "To Validate"; a proposed plan
\* stays proposed on "In Progress", and planStatus never goes back a stage.
C20_PlanStatusOnlyAdvances ==
  (TaskUpdated /\ last.err.ok /\ ~IsDefined(last.args.implementationPlan)) =>
    /\ stageOf(planStatusOf(cards[last.key])) >= stageOf(planStatusOf(last.before))
    /\ planStatusOf(cards[last.key]) # planStatusOf(last.before) =>
         /\ IsDefined(last.args.status)
         /\ \/ /\ cards[last.key].status = Some("In Progress")
               /\ planStatusOf(last.before) = "validated"
               /\ planStatusOf(cards[last.key]) = "in_progress"
            \/ /\ cards[last.key].status = Some("To Validate")
               /\ planStatusOf(cards[last.key]) = "completed"
    /\ (last.args.status = Some("In Progress") /\ planStatusOf(last.before) = "proposed")
         => planStatusOf(cards[last.key]) = "proposed"

\* A task with a proposed plan went to "In Progress" and the plan is still
\* proposed.
C20_Witness ==
  /\ TaskUpdated
  /\ last.err.ok
  /\ ~IsDefined(last.args.implementationPlan)
  /\ last.args.status = Some("In Progress")
  /\ planStatusOf(last.before) = "proposed"
  /\ planStatusOf(cards[last.key]) = "proposed"

(***************************************************************************)
(* The priority table and calculatePriority (SpecCalc).                    *)
(***************************************************************************)
ratioOrder(a, b) == a.biz * b.dev >= b.biz * a.dev

\* C22: for both scales the table has n*n entries (25 and 36), one per pairing
\* of the scale; the ranks are the integers 1..n*n, each used once; the pairing
\* with the highest ratio has rank 1 and the one with the lowest has rank n*n.
C22_PriorityTable ==
  \A s \in {"1-5", "fibonacci"} :
    LET map == PRIORITY_MAPS[s]
        v == Range(scaleValues(s))
        n == Cardinality(v)
        entry(rank) == CHOOSE e \in Range(map) : e.priority = rank
    IN  /\ n * n = (IF s = "1-5" THEN 25 ELSE 36)
        /\ Len(map) = n * n
        /\ {<<map[i].biz, map[i].dev>> : i \in 1..Len(map)} = v \X v
        /\ {map[i].priority : i \in 1..Len(map)} = 1..(n * n)
        /\ \A e \in Range(map) :
             /\ ratioOrder(entry(1), e) /\ (e.priority # 1 => ~ratioOrder(e, entry(1)))
             /\ ratioOrder(e, entry(n * n)) /\ (e.priority # n * n => ~ratioOrder(entry(n * n), e))

\* The tables as the tests read them: 5/1 first and 1/5 last, 13/1 first and 1/13 last.
C22_Witness ==
  /\ [biz |-> 5, dev |-> 1, priority |-> 1] \in Range(PRIORITY_MAP_1_5)
  /\ [biz |-> 1, dev |-> 5, priority |-> 25] \in Range(PRIORITY_MAP_1_5)
  /\ [biz |-> 13, dev |-> 1, priority |-> 1] \in Range(PRIORITY_MAP_FIBONACCI)
  /\ [biz |-> 1, dev |-> 13, priority |-> 36] \in Range(PRIORITY_MAP_FIBONACCI)

Calculated == reply.op = "calculatePriority"

MissingOrZero(points) == ~IsDefined(points) \/ ValueOf(points) = 0

\* C23: calculatePriority returns null exactly when businessPoints or devPoints
\* is missing or zero; otherwise it returns an integer from 1 to n*n, n the
\* size of the scale.
C23_NullIffMissingOrZero ==
  Calculated =>
    LET n == Len(scaleValues(reply.args[3]))
    IN  IF MissingOrZero(reply.args[1]) \/ MissingOrZero(reply.args[2])
        THEN reply.value = Undefined
        ELSE IsDefined(reply.value) /\ ValueOf(reply.value) \in 1..(n * n)

\* A ratio below every entry of the table gets the last rank.
C23_Witness ==
  /\ Calculated
  /\ reply.args = <<Some(1), Some(21), "1-5">>
  /\ reply.value = Some(25)

\* The entries of the 1-5 table whose ratio is greater than businessPoints / devPoints.
RankedAbove(businessPoints, devPoints) ==
  {<<e.biz, e.dev>> : e \in
     {e \in Range(PRIORITY_MAP_1_5) :
        ~ratioOrder([biz |-> businessPoints, dev |-> devPoints], e)}}

\* C24 as stated: devPoints 2 and businessPoints 5 get priority 2, only 5/1 above.
C24_Rank2 ==
  Calculated /\ reply.args = <<Some(5), Some(2), "1-5">>
    => reply.value = Some(2) /\ RankedAbove(5, 2) = {<<5, 1>>}

\* C24: on the 1-5 scale devPoints 2 and businessPoints 5 (ratio 250) get
\* priority 4, because the pairings 5/1, 4/1 and 3/1 (ratios 500, 400, 300)
\* rank above it.
C24_Rank4 ==
  Calculated /\ reply.args = <<Some(5), Some(2), "1-5">>
    => reply.value = Some(4) /\ RankedAbove(5, 2) = {<<5, 1>>, <<4, 1>>, <<3, 1>>}

C24_Witness ==
  Calculated /\ reply.args = <<Some(5), Some(2), "1-5">> /\ IsDefined(reply.value)

\* Both points of the call are values of its scale.
OnScale ==
  /\ IsDefined(reply.args[1]) /\ ValueOf(reply.args[1]) \in Range(scaleValues(reply.args[3]))
  /\ IsDefined(reply.args[2]) /\ ValueOf(reply.args[2]) \in Range(scaleValues(reply.args[3]))

rankOf(map, biz, dev) == (CHOOSE e \in Range(map) : e.biz = biz /\ e.dev = dev).priority

\* C37: for points on the scale calculatePriority returns the smallest rank
\* the table gives to a pairing with the same ratio; pairings with an equal
\* ratio get the same priority, a pairing with a strictly higher ratio never
\* gets a larger one, and on the 1-5 scale calculatePriority(4, 2) is the
\* rank of the pairing (2, 1), not that of (4, 2).
C37_SmallestRankOfTies ==
  Calculated /\ OnScale =>
    LET scoring == reply.args[3]
        map == PRIORITY_MAPS[scoring]
        r == [biz |-> ValueOf(reply.args[1]), dev |-> ValueOf(reply.args[2])]
        ties == {e \in Range(map) : ratioOrder(e, r) /\ ratioOrder(r, e)}
        higher == {e \in Range(map) : ~ratioOrder(r, e)}
    IN  /\ IsDefined(reply.value)
        /\ \E e \in ties : e.priority = ValueOf(reply.value)
        /\ \A e \in ties :
             /\ ValueOf(reply.value) <= e.priority
             /\ calculatePriority(Some(e.biz), Some(e.dev), scoring) = reply.value
        /\ \A e \in higher :
             ValueOf(calculatePriority(Some(e.biz), Some(e.dev), scoring)) <= ValueOf(reply.value)
        /\ reply.args = <<Some(4), Some(2), "1-5">>
             => /\ ValueOf(reply.value) = rankOf(map, 2, 1)
                /\ ValueOf(reply.value) # rankOf(map, 4, 2)

\* calculatePriority(4, 2) on the 1-5 scale: the tie group holds (2, 1) and (4, 2).
C37_Witness ==
  /\ Calculated
  /\ reply.args = <<Some(4), Some(2), "1-5">>
  /\ reply.value = Some(rankOf(PRIORITY_MAP_1_5, 2, 1))
  /\ rankOf(PRIORITY_MAP_1_5, 4, 2) = rankOf(PRIORITY_MAP_1_5, 2, 1) + 1

(***************************************************************************)
(* The list service (SpecResolve, SpecLists).                              *)
(***************************************************************************)
IsLookup == reply.op \in {"getListTexts", "resolveValue", "isValidValue"}

SameIgnoringCase(a, b) == toLowerCase(a) = toLowerCase(b)

SourceEmpty == IsLookup /\ Len(RtdbLists[reply.args[1]]) = 0

ListServiceStep ==
  UNCHANGED <<cards, counters, scoringSystem, PRIORITY_MAPS, last, rtdb, now, pending>>

\* The step is a lookup of the list type, whichever function makes it.
Reads(listType) ==
  /\ ListServiceStep
  /\ reply'.op \in {"getListTexts", "resolveValue", "isValidValue"}
  /\ reply'.args[1] = listType

\* The step is invalidateCache(listType).
Invalidates(listType) ==
  ListServiceStep /\ reply'.op = "invalidateCache" /\ reply'.args[1] = listType

\* What a lookup answers when it works on data.
AnswersFrom(data, answer) ==
  LET sorted == sortByOrder(data, 1, <<>>)
  IN  /\ answer.op = "getListTexts" => answer.value = [i \in 1..Len(sorted) |-> sorted[i].text]
      /\ answer.op = "isValidValue" =>
           (answer.value <=> \E i \in 1..Len(data) : data[i].text = answer.args[2])

Reloads(listType) ==
  /\ reply'.loaded = {listType}
  /\ AnswersFrom(loadListFromFirebase(listType), reply')
  /\ cache'[listType] = Some([data |-> loadListFromFirebase(listType), loadedAt |-> now])

\* C27: a lookup of a list type less than 5 minutes after the type was loaded
\* answers from the cached list without going to the database, whatever the
\* database holds by then; a lookup 5 minutes or more after the load reloads.
C27_CachedForFiveMinutes ==
  [][\A listType \in ListTypes :
       Reads(listType) /\ IsDefined(cache[listType]) =>
         IF now - ValueOf(cache[listType]).loadedAt < 5 * 60 * 1000
         THEN /\ reply'.loaded = {}
              /\ AnswersFrom(ValueOf(cache[listType]).data, reply')
              /\ cache' = cache
         ELSE Reloads(listType)]_vars

\* A list read from the cache four minutes after the load, the database changed since.
C27_Witness ==
  /\ reply.op = "getListTexts" /\ reply.args = <<"bugPriority">> /\ reply.loaded = {}
  /\ IsDefined(cache.bugPriority)
  /\ now - ValueOf(cache.bugPriority).loadedAt = 4 * 60 * 1000
  /\ RtdbLists.bugPriority # ValueOf(cache.bugPriority).data
  /\ reply.value[1] = "APPLICATION BLOCKER"

\* C28: invalidateCache(listType) drops the entry of the list type and leaves
\* every other entry as it was, invalidateCache() drops every entry; an entry
\* that was dropped stays absent until a lookup of its type, which reloads.
C28_InvalidateCache ==
  [][/\ \A listType \in ListTypes :
          Invalidates(Some(listType)) =>
            /\ cache'[listType] = Undefined
            /\ \A other \in ListTypes \ {listType} : cache'[other] = cache[other]
     /\ Invalidates(Undefined) => \A listType \in ListTypes : cache'[listType] = Undefined
     /\ \A listType \in ListTypes :
          /\ cache[listType] = Undefined /\ cache'[listType] # Undefined => Reads(listType)
          /\ cache[listType] = Undefined /\ Reads(listType) => Reloads(listType)]_vars

\* One list type invalidated while another is cached.
C28_Witness ==
  /\ reply.op = "invalidateCache" /\ reply.args = <<Some("bugPriority")>>
  /\ cache.bugPriority = Undefined
  /\ IsDefined(cache.bugStatus)

(***************************************************************************)
(* The validator of a new task (SpecValidator).                            *)
(***************************************************************************)
\* The stakeholders of the project that are not switched off, in key order.
ActiveOnProject ==
  SelectSeq(StakeholdersData, LAMBDA st : st.active /\ st.id \in ProjectStakeholderIds)

EmailOf(developer) ==
  IF IsDefined(developer) /\ ValueOf(developer) \in DOMAIN DevelopersData
  THEN DevelopersData[ValueOf(developer)].email ELSE ""

\* The first stakeholder of the sequence passing Test, or Undefined.
FirstId(stakeholders, Test(_)) ==
  IF \E i \in 1..Len(stakeholders) : Test(stakeholders[i])
  THEN Some(stakeholders[CHOOSE i \in 1..Len(stakeholders) :
                           /\ Test(stakeholders[i])
                           /\ \A j \in 1..(i - 1) : ~Test(stakeholders[j])].id)
  ELSE Undefined

\* A createCard of a task whose arguments other than validator and developer pass.
ValidatorCall ==
  /\ last.op = "create" /\ last.type = "task"
  /\ \A f \in Fields \ {"validator", "developer"} : last.args[f] = TaskArgs[f]

Stored(validator) == last.err.ok /\ cards[last.key].validator = validator

\* C29: the validator stored with a new task is the one supplied; failing
\* that, the first active stakeholder of the project with the e-mail address
\* of the developer; failing that, the default stakeholder if active on the
\* project; failing that, createCard throws, listing the active stakeholders
\* of the project, or saying that there are none.
C29_ValidatorPreference ==
  ValidatorCall =>
    LET validator == last.args.validator
        email == EmailOf(last.args.developer)
        byEmail == FirstId(ActiveOnProject, LAMBDA st : email # "" /\ st.email = email)
        default == FirstId(ActiveOnProject, LAMBDA st : st.name = "Manu Fosela")
    IN  IF IsDefined(validator) /\ ValueOf(validator) # "" THEN Stored(validator)
        ELSE IF IsDefined(byEmail) THEN Stored(byEmail)
        ELSE IF IsDefined(default) THEN Stored(default)
        ELSE /\ ~last.err.ok
             /\ last.key \notin DOMAIN cards
             /\ IF Len(ActiveOnProject) > 0
                THEN /\ last.err.code = "NO_VALIDATOR_ASSIGNABLE"
                     /\ last.err.listed = [i \in 1..Len(ActiveOnProject) |-> ActiveOnProject[i].id]
                ELSE last.err.code = "NO_STAKEHOLDERS_IN_PROJECT"

\* The developer's own stakeholder wins over the default one, both on the project.
C29_Witness ==
  /\ ValidatorCall
  /\ last.args.validator = Undefined /\ last.args.developer = Some("dev_1")
  /\ \A i \in 1..3 : StakeholdersData[i].active
  /\ ProjectStakeholderIds = StakeholderIds
  /\ Stored(Some("stk_1"))

(***************************************************************************)
(* The active sprint (SpecSprints).  Today is 2024-06-01.                  *)
(***************************************************************************)
HasActiveStatus(sprint) == sprint.status \in {"Active", "In Progress"}

\* startDate <= today <= endDate, both ends included.
ContainsToday(sprint) ==
  /\ sprint.startDate \in {"2024-05-01", "2024-06-01"}
  /\ sprint.endDate \in {"2024-06-01", "2024-07-01"}

\* The first sprint of the project passing Test, or Undefined.
FirstSprint(Test(_)) ==
  IF \E i \in 1..Len(ProjectSprints) : Test(ProjectSprints[i])
  THEN Some(ProjectSprints[CHOOSE i \in 1..Len(ProjectSprints) :
                             /\ Test(ProjectSprints[i])
                             /\ \A j \in 1..(i - 1) : ~Test(ProjectSprints[j])])
  ELSE Undefined

\* C30: getActiveSprint returns the first sprint in stored order whose status
\* is 'Active' or 'In Progress', whatever the dates of the others; when there
\* is none, the first sprint with startDate <= today <= endDate; else null.
C30_ActiveSprint ==
  reply.op = "getActiveSprint" =>
    reply.value = IF IsDefined(FirstSprint(HasActiveStatus)) THEN FirstSprint(HasActiveStatus)
                  ELSE FirstSprint(ContainsToday)

\* The sprint that is active by status is returned, not the earlier one running today.
C30_Witness ==
  /\ reply.op = "getActiveSprint"
  /\ Len(ProjectSprints) = 2
  /\ ~HasActiveStatus(ProjectSprints[1]) /\ ContainsToday(ProjectSprints[1])
  /\ HasActiveStatus(ProjectSprints[2]) /\ ~ContainsToday(ProjectSprints[2])
  /\ reply.value = Some(ProjectSprints[2])

(***************************************************************************)
(* The card counter (SpecCounter).                                         *)
(***************************************************************************)
\* The sequence numbers minted for the type: those of the cards stored and
\* those of the calls that have left the transaction and not yet written.
MintedBy(type) ==
  [h \in {<<"card", k>> : k \in {k \in DOMAIN cards : typeOf(cards[k]) = type}}
       \cup {<<"call", p>> : p \in {p \in DOMAIN pending :
                                        pending[p].type = type /\ pending[p].pc = "write"}} |->
     IF h[1] = "card" THEN ValueOf(cards[h[2]].cardId).seq ELSE pending[h[2]].lastId + 1]

\* Each number from 1 to the counter has been minted, and minted once.
MintedOnce(type) ==
  /\ \A g, h \in DOMAIN MintedBy(type) : g # h => MintedBy(type)[g] # MintedBy(type)[h]
  /\ {MintedBy(type)[h] : h \in DOMAIN MintedBy(type)} = 1..counters[type]

\* C21: the sequence numbers minted for a counter are 1, 2, 3, ... up to the
\* counter, each minted once, and each is one more than the number minted
\* before it for that counter, whether the createCard calls overlap or not.
C21_SequentialIds ==
  [][\A type \in Types :
       /\ MintedOnce(type)'
       /\ counters'[type] \in {counters[type], counters[type] + 1}
       /\ \A h \in DOMAIN MintedBy(type)' \ DOMAIN MintedBy(type) :
            h[1] = "call" => /\ MintedBy(type)'[h] = counters[type] + 1
                             /\ counters'[type] = counters[type] + 1]_vars

\* Two calls read the same counter value; one has committed, the other has
\* yet to find out.
C21_Witness ==
  \E p, q \in DOMAIN pending :
    /\ p # q
    /\ pending[p].type = "task" /\ pending[q].type = "task"
    /\ pending[p].pc = "write" /\ pending[q].pc = "set"
    /\ pending[p].lastId = pending[q].lastId
    /\ counters["task"] = pending[q].lastId + 1


\* The target status is marked as allowed in the transitions getCard reported.
MarkedAllowed(targetStatus) ==
  /\ targetStatus \in DOMAIN reply.value.availableTransitions.transitions
  /\ reply.value.availableTransitions.transitions[targetStatus].allowed

\* C31: for a task and any target status T other than its current status,
\* calculateAvailableTransitions marks T as allowed exactly when the update
\* {status: T} passes validateStatusTransition for that card.
C31_TransitionsAgree ==
  reply.op = "getCard"
    => \A targetStatus \in TaskStatuses \ {currentStatusOf(reply.value.card)} :
         MarkedAllowed(targetStatus)
           <=> validateStatusTransition(reply.value.card, Single("status", targetStatus),
                                        "task").ok

\* The cache holds the fallback list for the list type.
FallbackCached(listType) ==
  /\ IsDefined(cache[listType])
  /\ ValueOf(cache[listType]).data = FALLBACK_LISTS[listType]

\* C34: a lookup that finds the backing data empty, or whose read fails,
\* answers from the fallback list and stores it in the cache as a load of
\* that moment; while the entry is less than 5 minutes old every lookup of
\* the type answers from it without reading the database, whatever the
\* database holds by then; the entry only goes when the type (or everything)
\* is invalidated or a lookup finds it 5 minutes old.
C34_FallbackCached ==
  [][\A listType \in ListTypes :
       /\ Reads(listType) /\ ~cached(listType)
            /\ (~ReadSucceeds \/ Len(RtdbLists[listType]) = 0)
            => /\ reply'.loaded = {listType}
               /\ AnswersFrom(FALLBACK_LISTS[listType], reply')
               /\ cache'[listType] =
                    Some([data |-> FALLBACK_LISTS[listType], loadedAt |-> now])
       /\ Reads(listType) /\ FallbackCached(listType)
            /\ now - ValueOf(cache[listType]).loadedAt < CACHE_TTL_MS
            => /\ reply'.loaded = {}
               /\ AnswersFrom(FALLBACK_LISTS[listType], reply')
               /\ cache' = cache
       /\ FallbackCached(listType) /\ cache'[listType] # cache[listType]
            => \/ Invalidates(Some(listType))
               \/ Invalidates(Undefined)
               \/ /\ Reads(listType)
                  /\ now - ValueOf(cache[listType]).loadedAt >= CACHE_TTL_MS]_vars

\* The fallback answered from the cache four minutes after it was stored,
\* with the list in the database and the database in reach by then.
C34_Witness ==
  /\ reply.op = "getListTexts" /\ reply.args = <<"bugPriority">> /\ reply.loaded = {}
  /\ reply.value[1] = "APPLICATION BLOCKER"
  /\ FallbackCached("bugPriority")
  /\ now - ValueOf(cache.bugPriority).loadedAt = 4 * 60 * 1000
  /\ ReadSucceeds
  /\ RtdbLists.bugPriority = << [text |-> "NEW PRIORITY", order |-> 1] >>

(***************************************************************************)
(* Relations between cards (SpecRelations).                                *)
(***************************************************************************)
relationsOf(card) == IF IsDefined(card.relatedTasks) THEN ValueOf(card.relatedTasks) ELSE <<>>

\* The card holds an entry for the card id with the relation type.
Holds(card, cardId, type) ==
  \E i \in 1..Len(relationsOf(card)) :
    relationsOf(card)[i].id = cardId /\ relationsOf(card)[i].type = type

\* The card stored under key a lists the card under key b with the relation type.
Lists(a, b, type) == Holds(cards[a], ValueOf(cards[b].cardId), type)

Symmetric ==
  \A a \in DOMAIN cards : \A b \in DOMAIN cards \ {a} :
    /\ Lists(a, b, "blocks") <=> Lists(b, a, "blockedBy")
    /\ Lists(a, b, "related") <=> Lists(b, a, "related")

DuplicateFree ==
  \A a \in DOMAIN cards :
    \A i \in 1..Len(relationsOf(cards[a])) : \A j \in 1..Len(relationsOf(cards[a])) :
      /\ relationsOf(cards[a])[i].id = relationsOf(cards[a])[j].id
      /\ relationsOf(cards[a])[i].type = relationsOf(cards[a])[j].type
      => i = j

\* The relations of the card without those to the card id of the type.
WithoutRelation(card, cardId, type) ==
  SelectSeq(relationsOf(card), LAMBDA r : ~(r.id = cardId /\ r.type = type))

\* The step is a call of relateCards that succeeded.
Related ==
  /\ reply'.op = "relateCards" /\ reply'.ok
  /\ UNCHANGED <<counters, last>>

\* C38: after successful relateCards calls on cards that started without
\* relations, a card lists another as "blocks" exactly when that one lists
\* it as "blockedBy", as "related" exactly when that one lists it as
\* "related", and no card holds two entries with the same id and type; an
\* add of a relation that is there changes nothing, an add leaves it on both
\* cards, and a remove leaves both cards without it and with their other
\* entries as they were, so that it undoes the add.
C38_RelationsSymmetric ==
  [][/\ Symmetric' /\ DuplicateFree'
     /\ Related =>
          \E source \in DOMAIN cards, target \in DOMAIN cards :
            LET sourceCardId == reply'.args[1]
                targetCardId == reply'.args[2]
                type == reply'.args[3]
                back == IF type = "blocks" THEN "blockedBy" ELSE "related"
            IN  /\ cards[source].cardId = Some(sourceCardId)
                /\ cards[target].cardId = Some(targetCardId)
                /\ WithoutRelation(cards'[source], targetCardId, type)
                     = WithoutRelation(cards[source], targetCardId, type)
                /\ WithoutRelation(cards'[target], sourceCardId, back)
                     = WithoutRelation(cards[target], sourceCardId, back)
                /\ \A other \in DOMAIN cards \ {source, target} : cards'[other] = cards[other]
                /\ IF reply'.args[4] = "add"
                   THEN /\ Holds(cards'[source], targetCardId, type)
                        /\ Holds(cards'[target], sourceCardId, back)
                        /\ Lists(source, target, type) => cards' = cards
                   ELSE /\ ~Holds(cards'[source], targetCardId, type)
                        /\ ~Holds(cards'[target], sourceCardId, back)
                        /\ relationsOf(cards'[source])
                             = WithoutRelation(cards[source], targetCardId, type)
                        /\ relationsOf(cards'[target])
                             = WithoutRelation(cards[target], sourceCardId, back)]_vars

\* "blocks" removed between the first task and the bug, which stay "related"
\* to each other, the task being related to the second task as well.
C38_Witness ==
  /\ reply.op = "relateCards" /\ reply.ok
  /\ reply.args = <<CardId("task", 1), CardId("bug", 1), "blocks", "remove">>
  /\ \E a \in DOMAIN cards, b \in DOMAIN cards, c \in DOMAIN cards :
       /\ cards[a].cardId = Some(CardId("task", 1))
       /\ cards[b].cardId = Some(CardId("bug", 1))
       /\ cards[c].cardId = Some(CardId("task", 2))
       /\ Lists(a, b, "related") /\ Lists(b, a, "related")
       /\ Lists(a, c, "related") /\ Lists(c, a, "related")
       /\ Lists(b, a, "blocks") /\ Lists(a, b, "blockedBy")
       /\ ~Lists(a, b, "blocks") /\ ~Lists(b, a, "blockedBy")

(***************************************************************************)
(* What every stored card satisfies (Spec, SpecLeaveToDo, SpecBug).        *)
(***************************************************************************)
StoredTasks == {key \in DOMAIN cards : typeOf(cards[key]) = "task"}
StoredBugs == {key \in DOMAIN cards : typeOf(cards[key]) = "bug"}

\* C35: every stored task whose status is not "To Do" has a title, a
\* developer, a validator, an epic, a sprint, positive devPoints and
\* businessPoints and acceptance criteria, whatever createCard and apply-mode
\* updateCard calls were made.
C35_OutsideToDoComplete ==
  \A key \in StoredTasks :
    cards[key].status # Some("To Do")
      => \A f \in BaseRequiredFields \cup {"title"} : ~FieldMissing(cards[key], f)

\* C36: every stored bug whose status is "Closed" has at least one commit, a
\* rootCause that is not blank and a resolution that is not blank, whatever
\* createCard and apply-mode updateCard calls were made.
C36_ClosedBugsDocumented ==
  \A key \in StoredBugs :
    cards[key].status = Some("Closed")
      => /\ hasCommits(cards[key])
         /\ ~blankString(cards[key], "rootCause")
         /\ ~blankString(cards[key], "resolution")

(***************************************************************************)
(* Lookups in flight (SpecRace).                                           *)
(***************************************************************************)
\* The cache entry of the list type holds data that was read from the
\* database before an invalidation of the type that has completed.
ReadBeforeInvalidation(listType) ==
  /\ IsDefined(cache[listType])
  /\ listType \in DOMAIN pending
  /\ pending[listType].invalidated

\* C33: under any interleaving of lookups and invalidations, a lookup that
\* starts after invalidateCache(listType) has completed never answers from
\* data that was read from the database before that invalidation.
C33_NoStaleReadAfterInvalidate ==
  [][\A listType \in ListTypes :
       Reads(listType) /\ reply'.loaded = {} => ~ReadBeforeInvalidation(listType)]_vars

(***************************************************************************)
(* Updates in flight (SpecUpdateRace).                                     *)
(***************************************************************************)
hashesOf(card) ==
  IF IsDefined(card.commits)
  THEN {ValueOf(card.commits)[i].hash : i \in 1..Len(ValueOf(card.commits))} ELSE {}

\* The step is the write of the update caller p has in flight.
Finishes(p) ==
  /\ p \in DOMAIN pending /\ pending[p].pc = "update"
  /\ p \in DOMAIN pending' /\ pending'[p].pc = "done" /\ pending'[p].err.ok

\* C32: two apply-mode updateCard calls on a card are not serialised: the
\* commit list a call writes is the list of the card as the call read it
\* with its own commits appended, whatever has been stored since, so that a
\* commit another call stored between the read and the write is missing
\* from the stored list afterwards.
C32_WriteFromStaleRead ==
  [][\A p \in Procs :
       Finishes(p) =>
         LET key == pending[p].key
             currentCard == pending[p].currentCard
             updates == pending[p].updates
         IN  /\ cards'[key].commits =
                  Some(appendCommitsToCard(currentCard, ValueOf(updates.commits)))
             /\ \A h \in hashesOf(cards[key]) \ (hashesOf(currentCard) \cup hashesOf(updates)) :
                  h \notin hashesOf(cards'[key])]_vars

\* Both calls read the card before either wrote; both succeeded, the first
\* returned the card with its commit h1, and the stored list holds h2 only.
C32_Witness ==
  /\ DOMAIN pending = {"p1", "p2"}
  /\ pending.p1.pc = "done" /\ pending.p1.err.ok
  /\ pending.p2.pc = "done" /\ pending.p2.err.ok
  /\ pending.p1.key = pending.p2.key
  /\ pending.p1.currentCard = pending.p2.currentCard
  /\ hashesOf(pending.p1.currentCard) = {}
  /\ hashesOf(pending.p1.returned) = {"h1"}
  /\ hashesOf(pending.p2.returned) = {"h2"}
  /\ hashesOf(cards[pending.p1.key]) = {"h2"}
====
